---- MODULE Spec2Model ----
(***************************************************************************)
(* Run / file / engine coordination core of subsyncarr_plus:               *)
(*   SubsyncarrPlusDatabase (src/src/database.ts), StateManager and        *)
(*   ProcessingCoordinator (src/src/coordinator.ts), ProcessingEngine      *)
(*   (src/src/processingEngine.ts).                                        *)
(* File paths are the naturals 1..MaxFiles, run ids the naturals 1, 2, ... *)
(* in order of allocation (randomUUID is only required to be fresh).       *)
(***************************************************************************)
EXTENDS Integers, Sequences, FiniteSets, TLC

\* ---------------------------------------------------------------- bounds
MaxFiles == 2
MaxFailures == 4
MaxRuns == 2
MaxConcurrent == 2
MaxClock == 2

\* ------------------------------------------------------------- constants
\* number | null columns (end_time, run ids): null is 0
Null == 0
\* recordEngineFailure: isSkipped = newFailureCount >= 3
SkipThreshold == 3
\* LOG_BUFFER_SIZE, by default
LogBufferSize == 1000

\* the 5-file stop scenario and the 3-file accounting scenario of the spec
StopScenarioFiles == <<1, 2, 3, 4, 5>>
CountScenarioFiles == <<1, 2, 3>>

Paths == 1..MaxFiles
AllPaths == Paths \cup {StopScenarioFiles[i] : i \in DOMAIN StopScenarioFiles}
EngineNames == {"ffsubsync", "autosubsync"}
Keys == AllPaths \X EngineNames
NoEngine == "none"

Min(a, b) == IF a < b THEN a ELSE b

\* ----------------------------------------------------------------- state
VARIABLES
    \* --- SubsyncarrPlusDatabase
    runs,             \* runs table, in insertion order
    fileResults,      \* file_results table, in insertion order
    tracking,         \* engine_failure_tracking table: key -> row (present or not)
    \* --- StateManager
    smCurrentRunId,   \* StateManager.currentRunId
    runStartedListeners, \* listeners registered for run:started by startRun calls
    \* --- ProcessingCoordinator
    processingPromise,\* "null" | "pending"
    currentRunId,     \* ProcessingCoordinator.currentRunId
    stopRequested,
    startPc,          \* the startRun caller awaiting the race
    startRunId,       \* id carried by the run:started notification it heard
    \* --- ProcessingEngine
    cancelledFiles,
    logBuffer,        \* the lines log() kept since the last reset
    enabledEngines,   \* INCLUDE_ENGINES, read once by both constructors
    maxConcurrent,    \* MAX_CONCURRENT_SYNC_TASKS
    enginePc,         \* position of processRun
    srtFiles,         \* the scan result of the run being processed
    batchAt,          \* loop index i of processRun (1-based)
    fileState,        \* per path: position and locals of its processFile call
    \* --- environment
    video,            \* per path: does findMatchingVideoFile find a video
    oracle,           \* per engine: the outcomes an invocation may have
    clock,            \* last value read from Date.now()
    \* --- observation
    events,           \* events the engine emitted since the last accepted startRun
    lastCall,         \* outcome of the last startRun / stopRun call
    heard,            \* per Run and per FileResult: the last payload the
                      \* listeners of the StateManager received for it
    startsLeft,       \* startRun calls the environment will still have accepted
    persisted,        \* the runs table as the constructor found it
    streak            \* per key: recordFailure calls since the last success/reset

dbVars == <<runs, fileResults>>
coordVars == <<smCurrentRunId, runStartedListeners, processingPromise, currentRunId,
               stopRequested, startPc, startRunId>>
engineVars == <<cancelledFiles, logBuffer, enginePc, srtFiles, batchAt, fileState>>
cfgVars == <<enabledEngines, maxConcurrent, video, oracle, persisted>>
obsVars == <<events, lastCall, heard>>
coreVars == <<dbVars, coordVars, engineVars, cfgVars, obsVars, clock, startsLeft>>
vars == <<coreVars, tracking, streak>>

\* -------------------------------------------------- engine failure tracker
NoRow == [present |-> FALSE, consecutive_failures |-> 0, is_skipped |-> FALSE]

getEngineFailureTracking(t, filePath, engine) == t[<<filePath, engine>>]

recordEngineFailure_Threshold2(t, filePath, engine) ==
    LET existing == getEngineFailureTracking(t, filePath, engine)
        newFailureCount == existing.consecutive_failures + 1
    IN IF existing.present
       THEN [t EXCEPT ![<<filePath, engine>>] =
                [present |-> TRUE, consecutive_failures |-> newFailureCount,
                 is_skipped |-> newFailureCount >= SkipThreshold - 1]]
       ELSE [t EXCEPT ![<<filePath, engine>>] =
                [present |-> TRUE, consecutive_failures |-> 1, is_skipped |-> FALSE]]

recordEngineFailure(t, filePath, engine) ==
    LET existing == getEngineFailureTracking(t, filePath, engine)
        newFailureCount == existing.consecutive_failures + 1
        isSkipped == newFailureCount >= SkipThreshold
    IN IF existing.present
       THEN [t EXCEPT ![<<filePath, engine>>] =
                [present |-> TRUE, consecutive_failures |-> newFailureCount,
                 is_skipped |-> isSkipped]]
       ELSE [t EXCEPT ![<<filePath, engine>>] =
                [present |-> TRUE, consecutive_failures |-> 1, is_skipped |-> FALSE]]

recordEngineSuccess(t, filePath, engine) ==
    \* UPDATE and INSERT branches both leave count 0 and is_skipped 0
    [t EXCEPT ![<<filePath, engine>>] =
        [present |-> TRUE, consecutive_failures |-> 0, is_skipped |-> FALSE]]

resetEngineSkipStatus_WholeFile(t, filePath, engines) ==
    [k \in Keys |->
        IF k[1] = filePath /\ t[k].present
        THEN [t[k] EXCEPT !.consecutive_failures = 0, !.is_skipped = FALSE]
        ELSE t[k]]

resetEngineSkipStatus_FlagOnly(t, filePath, engines) ==
    [k \in Keys |->
        IF k[1] = filePath /\ k[2] \in engines /\ t[k].present
        THEN [t[k] EXCEPT !.is_skipped = FALSE]
        ELSE t[k]]

\* engines: the one engine given, or every engine when the argument is omitted
resetEngineSkipStatus(t, filePath, engines) ==
    [k \in Keys |->
        IF k[1] = filePath /\ k[2] \in engines /\ t[k].present
        THEN [t[k] EXCEPT !.consecutive_failures = 0, !.is_skipped = FALSE]
        ELSE t[k]]

getAllSkippedEngines(t, filePath) ==
    {e \in EngineNames : t[<<filePath, e>>].present /\ t[<<filePath, e>>].is_skipped}

\* StateManager.shouldSkipEngine: true iff a row exists with is_skipped set
shouldSkipEngine(t, filePath, engine) ==
    LET row == getEngineFailureTracking(t, filePath, engine)
    IN row.present /\ row.is_skipped

\* ------------------------------------------------ SubsyncarrPlusDatabase
\* UPDATE ... SET <the given columns>: the other columns keep their values
Merge(row, updates) ==
    [k \in DOMAIN row |-> IF k \in DOMAIN updates THEN updates[k] ELSE row[k]]

createRun(rs, id, totalFiles, now) ==
    Append(rs, [id |-> id, start_time |-> now, end_time |-> Null,
                total_files |-> totalFiles, completed |-> 0, skipped |-> 0,
                failed |-> 0, total_engines |-> 0, completed_engines |-> 0,
                status |-> "running", logs |-> <<>>])

updateRun(rs, id, updates) ==
    [i \in 1..Len(rs) |-> IF rs[i].id = id THEN Merge(rs[i], updates) ELSE rs[i]]

NoRun == [id |-> Null]
HasRun(rs, id) == \E i \in 1..Len(rs) : rs[i].id = id
getRun(rs, id) ==
    IF HasRun(rs, id) THEN rs[CHOOSE i \in 1..Len(rs) : rs[i].id = id] ELSE NoRun

\* ORDER BY start_time DESC LIMIT limit: the set of rows that query returns
\* (rows with equal start_time: the later inserted first)
Newer(rs, i, j) ==
    \/ rs[i].start_time > rs[j].start_time
    \/ rs[i].start_time = rs[j].start_time /\ i > j
getRunHistory(rs, limit) ==
    {rs[i] : i \in {j \in 1..Len(rs) :
                      Cardinality({k \in 1..Len(rs) : Newer(rs, k, j)}) < limit}}

NoResult == [present |-> FALSE]

\* The engines column holds JSON text.  Text of an object: the sequence of
\* its members <<key, text of the value>> in insertion order; text of an
\* engine result: its members in the order success, duration, message, skipped.
\* A parsed object: its keys in insertion order and the value of each key.
EmptyObjectText == <<>>
ResultText(result) == <<result.success, result.duration, result.message, result.skipped>>
ParsedResult(text) ==
    [present |-> TRUE, success |-> text[1], duration |-> text[2], message |-> text[3],
     skipped |-> text[4]]
JSON_parse(text) ==
    [keys |-> [i \in 1..Len(text) |-> text[i][1]],
     val |-> [k \in {text[i][1] : i \in 1..Len(text)} |->
                ParsedResult(text[CHOOSE i \in 1..Len(text) : text[i][1] = k][2])]]
JSON_stringify(obj) ==
    [i \in 1..Len(obj.keys) |-> <<obj.keys[i], ResultText(obj.val[obj.keys[i]])>>]
\* obj[key] = value
SetMember(obj, key, value) ==
    [keys |-> IF key \in DOMAIN obj.val THEN obj.keys ELSE Append(obj.keys, key),
     val |-> [k \in DOMAIN obj.val \cup {key} |-> IF k = key THEN value ELSE obj.val[k]]]
createFileResult(frs, runId, filePath, videoPath) ==
    Append(frs, [run_id |-> runId, file_path |-> filePath, video_path |-> videoPath,
                 status |-> "pending", current_engine |-> NoEngine,
                 engines |-> EmptyObjectText])

updateFileResult(frs, runId, filePath, updates) ==
    [i \in 1..Len(frs) |->
        IF frs[i].run_id = runId /\ frs[i].file_path = filePath
        THEN Merge(frs[i], updates) ELSE frs[i]]

getFileResults(frs, runId) == SelectSeq(frs, LAMBDA r : r.run_id = runId)

\* The two tables after deleteOldRuns: first the file results of the runs
\* that started before the cutoff go, then those runs.
deleteOldRuns_RunsOnly(rs, frs, cutoffTime) ==
    [runs |-> SelectSeq(rs, LAMBDA r : ~(r.start_time < cutoffTime)),
     fileResults |-> frs]

deleteOldRuns(rs, frs, cutoffTime) ==
    LET old == {rs[i].id : i \in {j \in 1..Len(rs) : rs[j].start_time < cutoffTime}}
    IN [runs |-> SelectSeq(rs, LAMBDA r : ~(r.start_time < cutoffTime)),
        fileResults |-> SelectSeq(frs, LAMBDA r : r.run_id \notin old)]

\* the line trimOldLogs puts in place of what it cuts off
TrimMarker == <<"... (log trimmed to save space)", Null, NoEngine>>
\* trimOldLogs; the length of a log is counted in lines
trimOldLogs(rs, cutoffTime, maxLogLength) ==
    [i \in 1..Len(rs) |->
        IF rs[i].start_time < cutoffTime /\ Len(rs[i].logs) > maxLogLength
        THEN [rs[i] EXCEPT !.logs = Append(SubSeq(@, 1, maxLogLength), TrimMarker)]
        ELSE rs[i]]

\* -------------------------------------------------------- StateManager
\* The operators below take and return the record S of everything a
\* synchronous chain of calls can touch.  A call works on the state it is
\* handed: pre is that state, S its value inside the body, post the state the
\* call leaves.
NewRunId(rs) ==
    IF Len(rs) = 0 THEN 1
    ELSE 1 + (CHOOSE m \in {rs[i].id : i \in 1..Len(rs)} :
                \A i \in 1..Len(rs) : rs[i].id <= m)

\* randomUUID(): an id no Run has had, whether the Run is still stored, was
\* in the store the constructor found, or was announced by run:started
randomUUID(S) ==
    LET used == {NewRunId(S.runs), NewRunId(persisted)}
                  \cup {id + 1 : id \in DOMAIN S.heard.run}
    IN CHOOSE m \in used : \A id \in used : id <= m

\* the recovery step of the constructor
handleIncompleteRuns_EndNow(rs) ==
    [i \in 1..Len(rs) |->
        IF rs[i] \in getRunHistory(rs, 100) /\ rs[i].status = "running"
        THEN Merge(rs[i], [status |-> "cancelled", end_time |-> rs[i].start_time + 1])
        ELSE rs[i]]

handleIncompleteRuns(rs) ==
    [i \in 1..Len(rs) |->
        IF rs[i] \in getRunHistory(rs, 100) /\ rs[i].status = "running"
        THEN Merge(rs[i], [status |-> "cancelled", end_time |-> rs[i].start_time])
        ELSE rs[i]]

getCurrentRun(S) ==
    IF S.smCurrentRunId # Null THEN getRun(S.runs, S.smCurrentRunId) ELSE NoRun

\* The listeners of run:started, run:completed, run:cancelled and file:updated
\* are called inside emit with the row read back from the store; heard keeps
\* the last payload per entity.
NothingHeard == [run |-> <<>>, file |-> <<>>]
emitRun(pre, run) ==
    CHOOSE post \in {(
        [S EXCEPT !.heard.run = (run.id :> run) @@ @]
        ) : S \in {pre}} : TRUE
emitFileUpdated(pre, file, run) ==
    CHOOSE post \in {(
        [S EXCEPT !.heard.file = (<<file.run_id, file.file_path>> :> file) @@ @,
                  !.heard.run = (run.id :> run) @@ @]
        ) : S \in {pre}} : TRUE

\* startRun of StateManager; run:started reaches the one-shot listener of a
\* startRun call that is still racing, and removes it
StateManager_startRun(pre, totalFiles, engines, now) ==
    CHOOSE post \in {(
        LET runId == randomUUID(S)
            totalEngines == totalFiles * Len(engines)
            rs == updateRun(createRun(S.runs, runId, totalFiles, now), runId,
                            [total_engines |-> totalEngines])
            S1 == [S EXCEPT !.runs = rs,
                            !.smCurrentRunId = runId,
                            !.runStartedListeners = 0,
                            !.startPc = IF S.startPc = "racing" THEN "resolved" ELSE @,
                            !.startRunId = IF S.startPc = "racing" THEN runId ELSE @]
        IN emitRun(S1, getRun(rs, runId))
        ) : S \in {pre}} : TRUE

completeRun_NoEndTime(S, runId, now) ==
    LET rs == updateRun(S.runs, runId, [status |-> "completed"])
    IN emitRun([S EXCEPT !.runs = rs,
                         !.smCurrentRunId = IF S.smCurrentRunId = runId THEN Null ELSE @],
               getRun(rs, runId))

completeRun(pre, runId, now) ==
    CHOOSE post \in {(
        LET rs == updateRun(S.runs, runId, [end_time |-> now, status |-> "completed"])
        IN emitRun([S EXCEPT !.runs = rs,
                             !.smCurrentRunId = IF S.smCurrentRunId = runId THEN Null ELSE @],
                   getRun(rs, runId))
        ) : S \in {pre}} : TRUE

cancelRun_NoEndTime(S, runId, now) ==
    LET rs == updateRun(S.runs, runId, [status |-> "cancelled"])
    IN emitRun([S EXCEPT !.runs = rs,
                         !.smCurrentRunId = IF S.smCurrentRunId = runId THEN Null ELSE @],
               getRun(rs, runId))

cancelRun(pre, runId, now) ==
    CHOOSE post \in {(
        LET rs == updateRun(S.runs, runId, [end_time |-> now, status |-> "cancelled"])
        IN emitRun([S EXCEPT !.runs = rs,
                             !.smCurrentRunId = IF S.smCurrentRunId = runId THEN Null ELSE @],
                   getRun(rs, runId))
        ) : S \in {pre}} : TRUE

incrementRunCounter_FromZero(S, runId, field) ==
    [S EXCEPT !.runs = updateRun(S.runs, runId, (field :> 1))]

incrementRunCounter(pre, runId, field) ==
    CHOOSE post \in {(
        LET run == getRun(S.runs, runId)
        IN [S EXCEPT !.runs = updateRun(S.runs, runId, (field :> (run[field] + 1)))]
        ) : S \in {pre}} : TRUE

incrementCompletedEngines_Twice(S, runId) ==
    LET run == getRun(S.runs, runId)
    IN [S EXCEPT !.runs = updateRun(S.runs, runId,
                              [completed_engines |-> run.completed_engines + 2])]

incrementCompletedEngines(pre, runId) ==
    CHOOSE post \in {(
        LET run == getRun(S.runs, runId)
        IN [S EXCEPT !.runs = updateRun(S.runs, runId,
                                  [completed_engines |-> run.completed_engines + 1])]
        ) : S \in {pre}} : TRUE

\* file:updated carries the FileResult and its Run as the store holds them
emitFileUpdate(pre, runId, filePath) ==
    CHOOSE post \in {(
        LET files == getFileResults(S.fileResults, runId)
            found == {i \in 1..Len(files) : files[i].file_path = filePath}
        IN IF found # {}
           THEN emitFileUpdated(S, files[CHOOSE i \in found : \A j \in found : i <= j],
                                getRun(S.runs, runId))
           ELSE S
        ) : S \in {pre}} : TRUE

addFile(pre, runId, filePath, videoPath) ==
    CHOOSE post \in {(
        emitFileUpdate(
            [S EXCEPT !.fileResults = createFileResult(S.fileResults, runId, filePath, videoPath)],
            runId, filePath)
        ) : S \in {pre}} : TRUE

updateFileStatus(pre, runId, filePath, status, currentEngine) ==
    CHOOSE post \in {(
        emitFileUpdate(
            [S EXCEPT !.fileResults = updateFileResult(S.fileResults, runId, filePath,
                                          [status |-> status, current_engine |-> currentEngine])],
            runId, filePath)
        ) : S \in {pre}} : TRUE

updateFileEngine_Overwrites(S, runId, filePath, engine, result) ==
    LET files == getFileResults(S.fileResults, runId)
        found == {i \in 1..Len(files) : files[i].file_path = filePath}
    IN IF found # {}
       THEN LET engines == SetMember(JSON_parse(EmptyObjectText), engine, result)
            IN emitFileUpdate(
                   [S EXCEPT !.fileResults = updateFileResult(S.fileResults, runId, filePath,
                                                 [engines |-> JSON_stringify(engines)])],
                   runId, filePath)
       ELSE S

updateFileEngine(pre, runId, filePath, engine, result) ==
    CHOOSE post \in {(
        LET files == getFileResults(S.fileResults, runId)
            found == {i \in 1..Len(files) : files[i].file_path = filePath}
        IN IF found # {}
           THEN LET file == files[CHOOSE i \in found : \A j \in found : i <= j]
                    engines == SetMember(JSON_parse(file.engines), engine, result)
                IN emitFileUpdate(
                       [S EXCEPT !.fileResults = updateFileResult(S.fileResults, runId, filePath,
                                                     [engines |-> JSON_stringify(engines)])],
                       runId, filePath)
           ELSE S
        ) : S \in {pre}} : TRUE

appendLog_Prepends(S, runId, logMessage) ==
    LET run == getRun(S.runs, runId)
    IN IF run # NoRun
       THEN [S EXCEPT !.runs = updateRun(S.runs, runId, [logs |-> <<logMessage>> \o run.logs])]
       ELSE S

\* The logs column holds text; its lines are kept as a sequence, so that
\* currentLogs + logMessage + '\n' is Append.
appendLog(pre, runId, logMessage) ==
    CHOOSE post \in {(
        LET run == getRun(S.runs, runId)
        IN IF run # NoRun
           THEN [S EXCEPT !.runs = updateRun(S.runs, runId, [logs |-> Append(run.logs, logMessage)])]
           ELSE S
        ) : S \in {pre}} : TRUE

\* ------------------------------------------- ProcessingCoordinator: mirroring
Event(type, path, engine, result) ==
    [type |-> type, path |-> path, engine |-> engine, result |-> result]

onFilesFound_RunOnly(S, files, now) ==
    LET S1 == StateManager_startRun(S, Len(files), enabledEngines, now)
    IN [S1 EXCEPT !.currentRunId = S1.smCurrentRunId]

\* run:files_found handler
onFilesFound(pre, files, now) ==
    CHOOSE post \in {(
        LET S1 == StateManager_startRun(S, Len(files), enabledEngines, now)
            runId == S1.smCurrentRunId
            addAll[j \in 0..Len(files)] ==
                IF j = 0 THEN [S1 EXCEPT !.currentRunId = runId]
                ELSE addFile(addAll[j - 1], runId, files[j],
                             IF video[files[j]] THEN files[j] ELSE Null)
        IN addAll[Len(files)]
        ) : S \in {pre}} : TRUE

\* file:engine_completed handler
onEngineCompleted(pre, ev) ==
    CHOOSE post \in {(
        IF S.currentRunId # Null
        THEN incrementCompletedEngines(
                 updateFileEngine(S, S.currentRunId, ev.path, ev.engine, ev.result),
                 S.currentRunId)
        ELSE S
        ) : S \in {pre}} : TRUE

\* the handlers setupEventHandlers registers for the per-file events
onEvent(pre, ev) ==
    CHOOSE post \in {(
        IF S.currentRunId = Null THEN S
        ELSE CASE ev.type = "file:started" ->
                    updateFileStatus(S, S.currentRunId, ev.path, "processing", NoEngine)
               [] ev.type = "file:engine_started" ->
                    updateFileStatus(S, S.currentRunId, ev.path, "processing", ev.engine)
               [] ev.type = "file:engine_completed" -> onEngineCompleted(S, ev)
               [] ev.type = "file:completed" ->
                    incrementRunCounter(
                        updateFileStatus(S, S.currentRunId, ev.path, "completed", NoEngine),
                        S.currentRunId, "completed")
               [] ev.type = "file:skipped" ->
                    incrementRunCounter(
                        updateFileStatus(S, S.currentRunId, ev.path, "skipped", NoEngine),
                        S.currentRunId, "skipped")
               [] ev.type \in {"file:no_video", "file:failed"} ->
                    incrementRunCounter(
                        updateFileStatus(S, S.currentRunId, ev.path, "error", NoEngine),
                        S.currentRunId, "failed")
               [] OTHER -> S
        ) : S \in {pre}} : TRUE

\* EventEmitter.emit: listeners run synchronously, inside the emitting call
emit(pre, ev) ==
    CHOOSE post \in {(
        onEvent([S EXCEPT !.events = Append(@, ev)], ev)
        ) : S \in {pre}} : TRUE

\* the log handler
onLog(pre, message) ==
    CHOOSE post \in {(
        IF S.currentRunId # Null THEN appendLog(S, S.currentRunId, message) ELSE S
        ) : S \in {pre}} : TRUE

\* ------------------------------------------------------- ProcessingEngine
\* A log line: its text without the timestamp, and the file (or number) and
\* engine it names.
Line(text, subject, engine) == <<text, subject, engine>>

\* log(): the ring buffer, then the log event
log(pre, message) ==
    CHOOSE post \in {(
        onLog([S EXCEPT !.logBuffer = IF Len(@) >= LogBufferSize
                                      THEN Append(Tail(@), message)
                                      ELSE Append(@, message)],
              message)
        ) : S \in {pre}} : TRUE

SkipMessage == "Skipped due to 3+ consecutive failures"
SyntheticSkip ==
    [present |-> TRUE, success |-> FALSE, duration |-> 0, message |-> SkipMessage,
     skipped |-> TRUE]

\* How an engine invocation ends: the command exits with 0, exits with an
\* error, is killed by the timeout of execPromise, or the invocation rejects.
Outcomes == {"ok", "fail", "timeout", "threw"}

\* what the two engine functions return, by the way the command ended
generateFfsubsyncSubtitles(outcome) ==
    CASE outcome = "ok" -> [success |-> TRUE, message |-> "Successfully processed"]
      [] outcome = "timeout" -> [success |-> FALSE, message |-> "Timeout"]
      [] OTHER -> [success |-> FALSE, message |-> "Error processing"]

generateAutosubsyncSubtitles(outcome) ==
    CASE outcome = "ok" -> [success |-> TRUE, message |-> "Successfully processed"]
      [] OTHER -> [success |-> FALSE, message |-> "Error processing"]

\* the result processFile puts into file:engine_completed: what the engine
\* function returned, or the error it threw, with the duration measured
\* around the call
ResultOf(engine, outcome) ==
    LET result == IF engine = "ffsubsync" THEN generateFfsubsyncSubtitles(outcome)
                  ELSE generateAutosubsyncSubtitles(outcome)
    IN IF outcome = "threw"
       THEN [present |-> TRUE, success |-> FALSE, duration |-> 1,
             message |-> "exception", skipped |-> FALSE]
       ELSE [present |-> TRUE, success |-> result.success, duration |-> 1,
             message |-> result.message, skipped |-> FALSE]

IdleFile == [pc |-> "idle", engineIdx |-> 0, anyEngineSucceeded |-> FALSE,
             allEnginesSkipped |-> TRUE]

finishFile(pre, f, type) ==
    CHOOSE post \in {(
        emit([S EXCEPT !.fileState[f].pc = "done"], Event(type, f, NoEngine, NoResult))
        ) : S \in {pre}} : TRUE

RECURSIVE engineLoop(_, _, _)
engineLoop_FailedAsSkipped(S, f, i) ==
    IF i > Len(enabledEngines)
    THEN IF S.fileState[f].anyEngineSucceeded THEN finishFile(S, f, "file:completed")
         ELSE finishFile(S, f, "file:skipped")
    ELSE LET engine == enabledEngines[i]
         IN IF f \in S.cancelledFiles THEN finishFile(S, f, "file:skipped")
            ELSE IF shouldSkipEngine(tracking, f, engine)
            THEN engineLoop(emit(S, Event("file:engine_completed", f, engine, SyntheticSkip)),
                            f, i + 1)
            ELSE emit([S EXCEPT !.fileState[f].pc = "running",
                                !.fileState[f].engineIdx = i],
                      Event("file:engine_started", f, engine, NoResult))

engineLoop_StartsSkipped(S, f, i) ==
    IF i > Len(enabledEngines)
    THEN IF S.fileState[f].anyEngineSucceeded THEN finishFile(S, f, "file:completed")
         ELSE IF S.fileState[f].allEnginesSkipped THEN finishFile(S, f, "file:skipped")
         ELSE finishFile(S, f, "file:failed")
    ELSE LET engine == enabledEngines[i]
             S1 == emit(S, Event("file:engine_started", f, engine, NoResult))
         IN IF f \in S.cancelledFiles THEN finishFile(S, f, "file:skipped")
            ELSE IF shouldSkipEngine(tracking, f, engine)
            THEN engineLoop(emit(S1, Event("file:engine_completed", f, engine, SyntheticSkip)),
                            f, i + 1)
            ELSE [S1 EXCEPT !.fileState[f].pc = "running", !.fileState[f].engineIdx = i]

engineLoop_IgnoresCancel(S, f, i) ==
    IF i > Len(enabledEngines)
    THEN IF S.fileState[f].anyEngineSucceeded THEN finishFile(S, f, "file:completed")
         ELSE IF S.fileState[f].allEnginesSkipped THEN finishFile(S, f, "file:skipped")
         ELSE finishFile(S, f, "file:failed")
    ELSE LET engine == enabledEngines[i]
         IN IF shouldSkipEngine(tracking, f, engine)
            THEN engineLoop(emit(S, Event("file:engine_completed", f, engine, SyntheticSkip)),
                            f, i + 1)
            ELSE emit([S EXCEPT !.fileState[f].pc = "running",
                                !.fileState[f].engineIdx = i],
                      Event("file:engine_started", f, engine, NoResult))

engineLoop_NoReturnAfterSkip(S, f, i) ==
    IF i > Len(enabledEngines)
    THEN IF S.fileState[f].anyEngineSucceeded THEN finishFile(S, f, "file:completed")
         ELSE IF S.fileState[f].allEnginesSkipped THEN finishFile(S, f, "file:skipped")
         ELSE finishFile(S, f, "file:failed")
    ELSE LET engine == enabledEngines[i]
         IN IF f \in S.cancelledFiles
            THEN engineLoop(emit(S, Event("file:skipped", f, NoEngine, NoResult)), f, i + 1)
            ELSE IF shouldSkipEngine(tracking, f, engine)
            THEN engineLoop(emit(S, Event("file:engine_completed", f, engine, SyntheticSkip)),
                            f, i + 1)
            ELSE emit([S EXCEPT !.fileState[f].pc = "running",
                                !.fileState[f].engineIdx = i],
                      Event("file:engine_started", f, engine, NoResult))

\* the engine loop of processFile from engine number i, up to the next await
engineLoop(pre, f, i) ==
    CHOOSE post \in {(
        IF i > Len(enabledEngines)
        THEN IF S.fileState[f].anyEngineSucceeded
             THEN finishFile(log(S, Line("Completed successfully for", f, NoEngine)),
                             f, "file:completed")
             ELSE IF S.fileState[f].allEnginesSkipped
             THEN finishFile(log(S, Line("All engines skipped for", f, NoEngine)),
                             f, "file:skipped")
             ELSE finishFile(log(S, Line("All engines failed for", f, NoEngine)),
                             f, "file:failed")
        ELSE LET engine == enabledEngines[i]
             IN IF f \in S.cancelledFiles
                THEN finishFile(log(S, Line("Skipped (cancelled)", f, NoEngine)),
                                f, "file:skipped")
                ELSE IF shouldSkipEngine(tracking, f, engine)
                THEN engineLoop(emit(log(S, Line("Skipping (3+ consecutive failures)", f, engine)),
                                     Event("file:engine_completed", f, engine, SyntheticSkip)),
                                f, i + 1)
                ELSE emit(log([S EXCEPT !.fileState[f].pc = "running",
                                        !.fileState[f].engineIdx = i],
                              Line("Starting", f, engine)),
                          Event("file:engine_started", f, engine, NoResult))
        ) : S \in {pre}} : TRUE

processFile_NoVideoSkipped(S, f) ==
    IF f \in S.cancelledFiles THEN finishFile(S, f, "file:skipped")
    ELSE LET S1 == emit(S, Event("file:started", f, NoEngine, NoResult))
         IN IF ~video[f] THEN finishFile(S1, f, "file:skipped")
            ELSE engineLoop(S1, f, 1)

\* processFile up to its first await
processFile(pre, f) ==
    CHOOSE post \in {(
        LET S0 == log(S, Line("Processing", f, NoEngine))
        IN IF f \in S.cancelledFiles
           THEN finishFile(log(S0, Line("Skipped (cancelled)", f, NoEngine)), f, "file:skipped")
           ELSE LET S1 == emit(S0, Event("file:started", f, NoEngine, NoResult))
                IN IF ~video[f]
                   THEN finishFile(log(S1, Line("No matching video found for", f, NoEngine)),
                                   f, "file:no_video")
                   ELSE engineLoop(log(S1, Line("Found video", f, NoEngine)), f, 1)
        ) : S \in {pre}} : TRUE

BatchOf(S, i) == i..Min(i + maxConcurrent - 1, Len(S.srtFiles))
BatchSettled(S, i) == \A j \in BatchOf(S, i) : S.fileState[S.srtFiles[j]].pc = "done"

RECURSIVE runBatches(_, _)
runBatches_AllAtOnce(S, i) ==
    IF i > Len(S.srtFiles)
    THEN [S EXCEPT !.batchAt = i, !.enginePc = "returned"]
    ELSE LET last == Len(S.srtFiles)
             started[j \in (i - 1)..last] ==
                 IF j = i - 1 THEN [S EXCEPT !.batchAt = i, !.enginePc = "processing"]
                 ELSE processFile(started[j - 1], S.srtFiles[j])
             S1 == started[last]
         IN IF \A j \in i..last : S1.fileState[S1.srtFiles[j]].pc = "done"
            THEN runBatches(S1, last + 1) ELSE S1

\* the batch loop of processRun from index i, up to the next await that has
\* to wait for an engine
runBatches(pre, i) ==
    CHOOSE post \in {(
        IF i > Len(S.srtFiles)
        THEN log([S EXCEPT !.batchAt = i, !.enginePc = "returned"],
                 Line("All files processed", Null, NoEngine))
        ELSE LET last == Min(i + maxConcurrent - 1, Len(S.srtFiles))
                 started[j \in (i - 1)..last] ==
                     IF j = i - 1
                     THEN log([S EXCEPT !.batchAt = i, !.enginePc = "processing"],
                              Line("Processing batch", (i - 1) \div maxConcurrent + 1, NoEngine))
                     ELSE processFile(started[j - 1], S.srtFiles[j])
             IN CHOOSE post \in {IF BatchSettled(S1, i) THEN runBatches(S1, i + maxConcurrent)
                                 ELSE S1 : S1 \in {started[last]}} : TRUE
        ) : S \in {pre}} : TRUE

fileResumed_StopsAtFailure(S, f, outcome) ==
    LET i == S.fileState[f].engineIdx
        engine == enabledEngines[i]
        result == ResultOf(engine, outcome)
        S1 == [S EXCEPT !.fileState[f].allEnginesSkipped = FALSE,
                        !.fileState[f].anyEngineSucceeded = @ \/ result.success]
        S2 == emit(S1, Event("file:engine_completed", f, engine, result))
    IN IF result.success THEN engineLoop(S2, f, i + 1)
       ELSE finishFile(S2, f, "file:failed")

\* processFile resumed by the outcome of the engine invocation it awaits, up
\* to its emit of file:engine_completed (the command wrote nothing to stderr)
engineCompleted(pre, f, outcome) ==
    CHOOSE post \in {(
        LET i == S.fileState[f].engineIdx
            engine == enabledEngines[i]
            result == ResultOf(engine, outcome)
            S1 == IF outcome # "threw" /\ result.skipped THEN S
                  ELSE [S EXCEPT !.fileState[f].allEnginesSkipped = FALSE,
                                 !.fileState[f].anyEngineSucceeded = @ \/ result.success]
            L1 == IF outcome = "threw"
                  THEN log(log(S1, Line("failed", f, engine)), Line("Error: exception", f, engine))
                  ELSE IF result.skipped
                  THEN log(S1, Line("skipped (already processed)", f, engine))
                  ELSE IF result.success THEN log(S1, Line("completed (ok)", f, engine))
                  ELSE log(log(S1, Line("completed (not ok)", f, engine)),
                           Line("Error: " \o result.message, f, engine))
        IN emit(L1, Event("file:engine_completed", f, engine, result))
        ) : S \in {pre}} : TRUE

\* ... and on to its next await
fileResumed(pre, f, outcome) ==
    CHOOSE post \in {(
        engineLoop(engineCompleted(S, f, outcome), f, S.fileState[f].engineIdx + 1)
        ) : S \in {pre}} : TRUE

engineReturned_NoResume(S, f, outcome) == fileResumed(S, f, outcome)

\* ... and processRun resumed when that settled the batch it awaits
engineReturned(S, f, outcome) ==
    CHOOSE post \in {IF BatchSettled(S3, S3.batchAt)
                     THEN runBatches(S3, S3.batchAt + maxConcurrent)
                     ELSE S3 : S3 \in {fileResumed(S, f, outcome)}} : TRUE

\* processRun resumed by the result of the scan, up to its batch loop
filesFound(pre, files, now) ==
    CHOOSE post \in {(
        LET S0 == log([S EXCEPT !.srtFiles = files,
                                !.fileState = [f \in AllPaths |-> IdleFile]],
                      Line("Found subtitle files", Len(files), NoEngine))
            S1 == onFilesFound([S0 EXCEPT !.events = Append(@, Event("run:files_found", Null,
                                                                     NoEngine, NoResult))],
                               files, now)
            S2 == log(log(S1, Line("Processing with concurrency", maxConcurrent, NoEngine)),
                      Line("Enabled engines", Null, NoEngine))
        IN S2
        ) : S \in {pre}} : TRUE

\* ... and on to the first await that has to wait for an engine
scanReturned(pre, files, now) ==
    CHOOSE post \in {(
        runBatches(filesFound(S, files, now), 1)
        ) : S \in {pre}} : TRUE

skipFile_Toggle(S, filePath) ==
    [S EXCEPT !.cancelledFiles = IF filePath \in @ THEN @ \ {filePath}
                                 ELSE @ \cup {filePath}]

skipFile(S, filePath) == [S EXCEPT !.cancelledFiles = @ \cup {filePath}]

\* its log line is the one log event kept in events
StopLogged == Event("log", Null, NoEngine, NoResult)
stopAllProcessing(pre, allFiles) ==
    CHOOSE post \in {(
        [log(emit(S, StopLogged), Line("Stop requested - cancelling all remaining files",
                                       Null, NoEngine))
            EXCEPT !.cancelledFiles = @ \cup allFiles]
        ) : S \in {pre}} : TRUE

reset_KeepsCancelled(S) == [S EXCEPT !.logBuffer = <<>>]

reset(S) == [S EXCEPT !.cancelledFiles = {}, !.logBuffer = <<>>]

\* -------------------------------------------- ProcessingCoordinator: calls
isRunning(S) == S.processingPromise # "null"

stopRun_AlwaysQueues(S, now) ==
    LET run == getCurrentRun(S)
    IN IF run = NoRun
       THEN [S EXCEPT !.stopRequested = TRUE]
       ELSE LET files == getFileResults(S.fileResults, run.id)
                allFilePaths == {files[i].file_path : i \in 1..Len(files)}
            IN cancelRun(stopAllProcessing(S, allFilePaths), run.id, now)

stopRun_NoCancelFiles(S, now) ==
    LET run == getCurrentRun(S)
    IN IF run = NoRun
       THEN IF isRunning(S) THEN [S EXCEPT !.stopRequested = TRUE]
            ELSE [S EXCEPT !.thrown = "No run is currently in progress"]
       ELSE cancelRun(stopAllProcessing(S, {}), run.id, now)

stopRun_DropsRunId(S, now) ==
    LET run == getCurrentRun(S)
    IN IF run = NoRun
       THEN IF isRunning(S) THEN [S EXCEPT !.stopRequested = TRUE]
            ELSE [S EXCEPT !.thrown = "No run is currently in progress"]
       ELSE LET files == getFileResults(S.fileResults, run.id)
                allFilePaths == {files[i].file_path : i \in 1..Len(files)}
            IN [cancelRun(stopAllProcessing(S, allFilePaths), run.id, now)
                    EXCEPT !.currentRunId = Null]

\* stopRun; S.thrown carries the error it throws, if any
stopRun(S, now) ==
    LET run == getCurrentRun(S)
    IN IF run = NoRun
       THEN IF isRunning(S) THEN [S EXCEPT !.stopRequested = TRUE]
            ELSE [S EXCEPT !.thrown = "No run is currently in progress"]
       ELSE LET files == getFileResults(S.fileResults, run.id)
                allFilePaths == {files[i].file_path : i \in 1..Len(files)}
               \* the state stopAllProcessing leaves is computed once and
               \* handed to cancelRun
            IN CHOOSE R \in {cancelRun(T, run.id, now) :
                                T \in {stopAllProcessing(S, allFilePaths)}} : TRUE

startRun_ResolvesAtOnce(S) ==
    IF S.processingPromise # "null"
    THEN [S EXCEPT !.thrown = "A run is already in progress"]
    ELSE [reset(S) EXCEPT !.currentRunId = Null, !.stopRequested = FALSE,
                          !.startPc = "resolved", !.startRunId = Null,
                          !.enginePc = "scanning", !.processingPromise = "pending",
                          !.events = <<>>]

startRun_NoGuard(S) ==
    [reset(S) EXCEPT !.currentRunId = Null, !.stopRequested = FALSE,
                     !.startPc = "racing", !.startRunId = Null,
                     !.enginePc = "scanning", !.processingPromise = "pending",
                     !.events = <<>>]

startRun_ResetFirst(S) ==
    LET S1 == [reset(S) EXCEPT !.currentRunId = Null, !.stopRequested = FALSE]
    IN IF S.processingPromise # "null"
       THEN [S1 EXCEPT !.thrown = "A run is already in progress"]
       ELSE [S1 EXCEPT !.startPc = "racing", !.startRunId = Null,
                       !.enginePc = "scanning", !.processingPromise = "pending",
                       !.events = <<>>]

startRun_KeepsStopFlag(S) ==
    IF S.processingPromise # "null"
    THEN [S EXCEPT !.thrown = "A run is already in progress"]
    ELSE [reset(S) EXCEPT !.currentRunId = Null,
                          !.runStartedListeners = @ + 1,
                          !.startPc = "racing", !.startRunId = Null,
                          !.enginePc = "scanning", !.processingPromise = "pending",
                          !.events = <<>>]

\* startRun up to its await of the race; processRun runs up to its await of
\* the scan
startRun(pre) ==
    CHOOSE post \in {(
        IF S.processingPromise # "null"
        THEN [S EXCEPT !.thrown = "A run is already in progress"]
        ELSE LET S1 == [reset(S) EXCEPT !.currentRunId = Null, !.stopRequested = FALSE,
                                        !.runStartedListeners = @ + 1,
                                        !.startPc = "racing", !.startRunId = Null,
                                        !.enginePc = "scanning", !.events = <<>>]
                 S2 == log(log(S1, Line("Scanning for subtitle files...", Null, NoEngine)),
                           Line("Scan paths", Null, NoEngine))
             IN [S2 EXCEPT !.processingPromise = "pending"]
        ) : S \in {pre}} : TRUE

settle_LeavesRunning(S, now) ==
    [S EXCEPT !.processingPromise = "null", !.currentRunId = Null]

settle_StuckWithoutRun(S, now) ==
    LET run == getCurrentRun(S)
    IN IF run # NoRun
       THEN [completeRun([S EXCEPT !.processingPromise = "null"], run.id, now)
                EXCEPT !.currentRunId = Null]
       ELSE S

settle_CompletesOwnRun(S, now) ==
    LET S1 == [S EXCEPT !.processingPromise = "null"]
        S2 == IF S.currentRunId # Null THEN completeRun(S1, S.currentRunId, now) ELSE S1
    IN [S2 EXCEPT !.currentRunId = Null]

\* the finally callback attached to the promise of processRun
settle(pre, now) ==
    CHOOSE post \in {(
        LET run == getCurrentRun(S)
            S1 == [S EXCEPT !.processingPromise = "null"]
            S2 == IF run # NoRun THEN completeRun(S1, run.id, now) ELSE S1
        IN [S2 EXCEPT !.currentRunId = Null]
        ) : S \in {pre}} : TRUE

\* ac.abort(): the one-shot listener is removed unless run:started already
\* removed it
abortListener_Keeps(S) == S

abortListener(pre) ==
    CHOOSE post \in {(
        [S EXCEPT !.runStartedListeners = IF S.startRunId = Null /\ @ > 0 THEN @ - 1 ELSE @]
        ) : S \in {pre}} : TRUE

\* startRun after the race resolved with the id of run:started
startRunResumed(pre, now) ==
    CHOOSE post \in {(
        abortListener(
            IF S.stopRequested
            THEN LET S1 == stopRun(S, now)
                 IN IF S1.thrown # "none" THEN S1
                    ELSE [S1 EXCEPT !.thrown = "Run was stopped during initialization"]
            ELSE S)
        ) : S \in {pre}} : TRUE

\* startRun after the race rejected with the failure of processRun
startRunRejected(pre) ==
    CHOOSE post \in {(
        abortListener([S EXCEPT !.thrown = "Scan failed"])
        ) : S \in {pre}} : TRUE

\* ----------------------------------------------------------------- actions
State ==
    [runs |-> runs, fileResults |-> fileResults, smCurrentRunId |-> smCurrentRunId,
     processingPromise |-> processingPromise, currentRunId |-> currentRunId,
     stopRequested |-> stopRequested, startPc |-> startPc, startRunId |-> startRunId,
     cancelledFiles |-> cancelledFiles, enginePc |-> enginePc, srtFiles |-> srtFiles,
     batchAt |-> batchAt, fileState |-> fileState, events |-> events,
     runStartedListeners |-> runStartedListeners, logBuffer |-> logBuffer,
     heard |-> heard, thrown |-> "none"]

\* the step leaves the variables as the record T does (S is evaluated once)
Apply(S) ==
    \E T \in {S} :
        /\ runs' = T.runs
        /\ fileResults' = T.fileResults
        /\ smCurrentRunId' = T.smCurrentRunId
        /\ processingPromise' = T.processingPromise
        /\ currentRunId' = T.currentRunId
        /\ stopRequested' = T.stopRequested
        /\ startPc' = T.startPc
        /\ startRunId' = T.startRunId
        /\ cancelledFiles' = T.cancelledFiles
        /\ enginePc' = T.enginePc
        /\ srtFiles' = T.srtFiles
        /\ batchAt' = T.batchAt
        /\ fileState' = T.fileState
        /\ events' = T.events
        /\ runStartedListeners' = T.runStartedListeners
        /\ logBuffer' = T.logBuffer
        /\ heard' = T.heard

Call(op, outcome, runId) == [op |-> op, outcome |-> outcome, runId |-> runId]

\* Date.now() never goes back
Now == clock..Min(clock + 1, MaxClock)
Tick(S, now) == clock' = (IF S.runs # runs THEN now ELSE clock)

\* A callback of the promise machinery is due: it runs before any request,
\* scan result or engine exit is handled.
MicrotaskDue == startPc \in {"resolved", "rejected"} \/ enginePc \in {"returned", "failed"}

\* a request to start a run (HTTP route or cron)
StartRun ==
    /\ ~MicrotaskDue
    /\ \E S \in {startRun(State)} :
          /\ S.thrown = "none" => startsLeft > 0
          /\ startsLeft' = IF S.thrown = "none" THEN startsLeft - 1 ELSE startsLeft
          /\ Apply(S)
          /\ lastCall' = Call("startRun",
                              IF S.thrown = "none" THEN "pending" ELSE S.thrown, Null)
    /\ UNCHANGED <<cfgVars, clock, tracking, streak>>

\* a request to stop the run
StopRun ==
    /\ ~MicrotaskDue
    /\ \E now \in Now :
         \E S \in {stopRun(State, now)} :
            /\ Apply(S)
            /\ Tick(S, now)
            /\ lastCall' = Call("stopRun",
                                IF S.thrown # "none" THEN S.thrown
                                ELSE IF S.stopRequested /\ S.runs = runs THEN "queued"
                                ELSE "stopped", Null)
    /\ UNCHANGED <<cfgVars, startsLeft, tracking, streak>>

\* a request to skip one file
SkipFile(p) ==
    /\ ~MicrotaskDue
    /\ Apply(skipFile(State, p))
    /\ UNCHANGED <<cfgVars, lastCall, clock, startsLeft, tracking, streak>>

\* findAllSrtFiles returns: files_found is emitted and the first batches run
ScanDone(files) ==
    /\ enginePc = "scanning"
    /\ \E now \in Now :
         /\ Apply(scanReturned(State, files, now))
         /\ clock' = now
    /\ UNCHANGED <<cfgVars, lastCall, startsLeft, tracking, streak>>

\* findAllSrtFiles fails: processRun rejects before files_found
ScanFail ==
    /\ enginePc = "scanning"
    /\ enginePc' = "failed"
    /\ UNCHANGED <<dbVars, coordVars, cancelledFiles, logBuffer, srtFiles, batchAt,
                   fileState, cfgVars, obsVars, clock, startsLeft, tracking, streak>>

\* the engine invocation a file awaits comes back
EngineReturn(f, outcome) ==
    /\ enginePc = "processing"
    /\ fileState[f].pc = "running"
    /\ outcome \in oracle[enabledEngines[fileState[f].engineIdx]]
    /\ Apply(engineReturned(State, f, outcome))
    /\ UNCHANGED <<cfgVars, lastCall, clock, startsLeft, tracking, streak>>

\* processFile of f rejects when it is resumed (a listener called inside one
\* of its emits throws): Promise.all rejects, and with it processRun.  The
\* other files of the batch stay in flight.
ProcessFail(f) ==
    /\ enginePc = "processing"
    /\ fileState[f].pc = "running"
    /\ Apply([State EXCEPT !.enginePc = "failed", !.fileState[f].pc = "rejected"])
    /\ UNCHANGED <<cfgVars, lastCall, clock, startsLeft, tracking, streak>>

\* an engine invocation comes back to a processFile whose processRun has
\* rejected: the file goes on alone, no batch follows
OrphanReturn(f, outcome) ==
    /\ ~MicrotaskDue
    /\ enginePc = "idle"
    /\ fileState[f].pc = "running"
    /\ outcome \in oracle[enabledEngines[fileState[f].engineIdx]]
    /\ Apply(fileResumed(State, f, outcome))
    /\ UNCHANGED <<cfgVars, lastCall, clock, startsLeft, tracking, streak>>

\* the promise of processRun settled: the finally callback runs.  With no
\* file found it runs before startRun resumes, otherwise after.
Settle ==
    /\ enginePc \in {"returned", "failed"}
    /\ ~(startPc = "resolved" /\ Len(srtFiles) > 0)
    /\ \E now \in Now :
         \E S \in {settle(State, now)} :
            /\ Apply([S EXCEPT !.enginePc = "idle",
                               !.startPc = IF enginePc = "failed" /\ startPc = "racing"
                                           THEN "rejected" ELSE @])
            /\ Tick(S, now)
    /\ UNCHANGED <<cfgVars, lastCall, startsLeft, tracking, streak>>

StartRunResume_FabricatesId ==
    /\ startPc \in {"resolved", "rejected"}
    /\ ~(startPc = "resolved" /\ enginePc = "returned" /\ Len(srtFiles) = 0)
    /\ IF startPc = "rejected"
       THEN /\ Apply([startRunRejected(State) EXCEPT !.startPc = "idle"])
            /\ lastCall' = Call("startRun", "ok", NewRunId(runs))
            /\ UNCHANGED clock
       ELSE \E now \in Now :
              \E S \in {startRunResumed(State, now)} :
                 /\ Apply([S EXCEPT !.startPc = "idle"])
                 /\ Tick(S, now)
                 /\ lastCall' = IF S.thrown # "none"
                                THEN Call("startRun", S.thrown, Null)
                                ELSE Call("startRun", "ok", startRunId)
    /\ UNCHANGED <<cfgVars, startsLeft, tracking, streak>>

\* the race settled: startRun resumes, returns the id or throws
StartRunResume ==
    /\ startPc \in {"resolved", "rejected"}
    /\ ~(startPc = "resolved" /\ enginePc = "returned" /\ Len(srtFiles) = 0)
    /\ IF startPc = "rejected"
       THEN \E S \in {startRunRejected(State)} :
               /\ Apply([S EXCEPT !.startPc = "idle"])
               /\ lastCall' = Call("startRun", S.thrown, Null)
               /\ UNCHANGED clock
       ELSE \E now \in Now :
              \E S \in {startRunResumed(State, now)} :
                 /\ Apply([S EXCEPT !.startPc = "idle"])
                 /\ Tick(S, now)
                 /\ lastCall' = IF S.thrown # "none"
                                THEN Call("startRun", S.thrown, Null)
                                ELSE Call("startRun", "ok", startRunId)
    /\ UNCHANGED <<cfgVars, startsLeft, tracking, streak>>

\* the periodic database cleanup: the logs of old runs are trimmed, then the
\* very old runs are deleted; the cutoffs are Date.now() less the configured
\* trim and keep days
Cleanup(trimCutoff, keepCutoff, maxLogSize) ==
    /\ ~MicrotaskDue
    /\ \E now \in Now :
         /\ trimCutoff <= now /\ keepCutoff <= now
         /\ \E T \in {deleteOldRuns(trimOldLogs(runs, trimCutoff, maxLogSize), fileResults,
                                    keepCutoff)} :
               /\ runs' = T.runs
               /\ fileResults' = T.fileResults
               /\ lastCall' = Call("cleanup",
                                   IF Len(T.runs) < Len(runs) THEN "deleted" ELSE "kept", Null)
               /\ Tick(T, now)
    /\ UNCHANGED <<coordVars, engineVars, cfgVars, events, heard, startsLeft, tracking, streak>>

\* ------------------------------------------------- tracker operations
RecordFailure(f, e) ==
    /\ tracking[<<f, e>>].consecutive_failures < MaxFailures
    /\ tracking' = recordEngineFailure(tracking, f, e)
    /\ streak' = [streak EXCEPT ![<<f, e>>] = @ + 1]
    /\ UNCHANGED coreVars

RecordSuccess(f, e) ==
    /\ tracking' = recordEngineSuccess(tracking, f, e)
    /\ streak' = [streak EXCEPT ![<<f, e>>] = 0]
    /\ UNCHANGED coreVars

ResetSkip(f, engines) ==
    /\ tracking' = resetEngineSkipStatus(tracking, f, engines)
    /\ streak' = [k \in Keys |-> IF k[1] = f /\ k[2] \in engines THEN 0 ELSE streak[k]]
    /\ UNCHANGED coreVars

\* ------------------------------------------------------- specifications
OldRun(status, start, end) ==
    [id |-> 1, start_time |-> start, end_time |-> end, total_files |-> 1,
     completed |-> 0, skipped |-> 0, failed |-> 0, total_engines |-> 2,
     completed_engines |-> 0, status |-> status, logs |-> <<>>]

\* a store whose last process was killed during a run
PersistedRuns == {<<OldRun("running", 1, Null)>>}

\* tracker rows left by earlier runs: the given engines are latched for every path
PersistedTracking(engines) ==
    [k \in Keys |->
        IF k[1] \in Paths /\ k[2] \in engines
        THEN [present |-> TRUE, consecutive_failures |-> SkipThreshold, is_skipped |-> TRUE]
        ELSE NoRow]

\* the state the constructors leave, given what the store and the
\* environment hold
Constructed(old, rows, engines, k, vid, orc, starts) ==
    /\ persisted = old
    /\ runs = handleIncompleteRuns(old)
    /\ fileResults = <<>>
    /\ tracking = rows
    /\ smCurrentRunId = Null
    /\ runStartedListeners = 0
    /\ processingPromise = "null"
    /\ currentRunId = Null
    /\ stopRequested = FALSE
    /\ startPc = "idle"
    /\ startRunId = Null
    /\ cancelledFiles = {}
    /\ logBuffer = <<>>
    /\ heard = NothingHeard
    /\ enabledEngines = engines
    /\ maxConcurrent = k
    /\ enginePc = "idle"
    /\ srtFiles = <<>>
    /\ batchAt = 1
    /\ fileState = [f \in AllPaths |-> IdleFile]
    /\ video = vid
    /\ oracle = orc
    /\ clock = 1
    /\ events = <<>>
    /\ lastCall = Call("none", "none", Null)
    /\ startsLeft = starts
    /\ streak = [key \in Keys |-> 0]

OneEngine == <<"ffsubsync">>
TwoEngines == <<"ffsubsync", "autosubsync">>
OkOrFail == [e \in EngineNames |-> {"ok", "fail"}]
VideoChoices == {v \in [AllPaths -> BOOLEAN] : \A f \in AllPaths \ Paths : v[f]}
ScanChoices == {[j \in 1..n |-> j] : n \in 0..MaxFiles}

\* Coordination over several runs of one process, a single engine enabled
Init ==
    \E old \in PersistedRuns, skipped \in SUBSET {"ffsubsync"},
       k \in 1..MaxConcurrent, vid \in VideoChoices :
        Constructed(old, PersistedTracking(skipped), OneEngine, k, vid,
                    OkOrFail, MaxRuns)

Next ==
    \/ StartRun
    \/ StopRun
    \/ \E p \in Paths : SkipFile(p)
    \/ \E files \in ScanChoices : ScanDone(files)
    \/ ScanFail
    \/ \E f \in AllPaths, o \in Outcomes : EngineReturn(f, o)
    \/ Settle
    \/ StartRunResume

Spec == Init /\ [][Next]_vars

TrackerInit ==
    Constructed(<<>>, [k \in Keys |-> NoRow], TwoEngines, 1,
                [f \in AllPaths |-> TRUE], OkOrFail, 0)

\* One run with two engines enabled: the per-file engine loop
EngineInit ==
    \E skipped \in SUBSET EngineNames, k \in 1..MaxConcurrent, vid \in VideoChoices :
        Constructed(<<>>, PersistedTracking(skipped), TwoEngines, k, vid, OkOrFail, 1)

EngineSpec == EngineInit /\ [][Next]_vars

TrackerNext ==
    \/ \E f \in Paths, e \in EngineNames : RecordFailure(f, e)
    \/ \E f \in Paths, e \in EngineNames : RecordSuccess(f, e)
    \/ \E f \in Paths, e \in EngineNames : ResetSkip(f, {e})
    \/ \E f \in Paths : ResetSkip(f, EngineNames)

TrackerSpec == TrackerInit /\ [][TrackerNext]_vars

\* The constructor of StateManager on a store left by earlier processes
Construct ==
    /\ enginePc = "unconstructed"
    /\ runs' = handleIncompleteRuns(runs)
    /\ enginePc' = "idle"
    /\ UNCHANGED <<fileResults, coordVars, cancelledFiles, logBuffer, srtFiles, batchAt,
                   fileState, cfgVars, obsVars, clock, startsLeft, tracking, streak>>

StoredRun(id, status, start, end) == [OldRun(status, start, end) EXCEPT !.id = id]
StoredRuns(id) ==
    {StoredRun(id, "running", start, Null) : start \in 1..MaxClock}
    \cup {StoredRun(id, st[1], st[2], st[3]) :
            st \in {x \in {"completed", "cancelled"} \X (1..MaxClock) \X (1..MaxClock) :
                      x[2] <= x[3]}}
StoredTables ==
    {<<>>} \cup {<<r>> : r \in StoredRuns(1)}
           \cup {<<r1, r2>> : r1 \in StoredRuns(1), r2 \in StoredRuns(2)}

RecoveryInit ==
    \E old \in StoredTables :
        /\ persisted = old
        /\ runs = old
        /\ fileResults = <<>>
        /\ tracking = [k \in Keys |-> NoRow]
        /\ smCurrentRunId = Null
        /\ runStartedListeners = 0
        /\ processingPromise = "null"
        /\ currentRunId = Null
        /\ stopRequested = FALSE
        /\ startPc = "idle"
        /\ startRunId = Null
        /\ cancelledFiles = {}
        /\ logBuffer = <<>>
        /\ heard = NothingHeard
        /\ enabledEngines = TwoEngines
        /\ maxConcurrent = 1
        /\ enginePc = "unconstructed"
        /\ srtFiles = <<>>
        /\ batchAt = 1
        /\ fileState = [f \in AllPaths |-> IdleFile]
        /\ video = [f \in AllPaths |-> TRUE]
        /\ oracle = OkOrFail
        /\ clock = MaxClock
        /\ events = <<>>
        /\ lastCall = Call("none", "none", Null)
        /\ startsLeft = 0
        /\ streak = [key \in Keys |-> 0]

RecoverySpec == RecoveryInit /\ [][Construct]_vars

\* The accounting scenario: three files, one of them without a video, two
\* engines of which one always succeeds and one always fails, nobody cancels
CountScenarioInit ==
    \E k \in 1..MaxConcurrent, good \in EngineNames,
       vid \in {v \in [AllPaths -> BOOLEAN] :
                  /\ \A f \in AllPaths : ~v[f] => f \in {1, 2, 3}
                  /\ Cardinality({f \in {1, 2, 3} : ~v[f]}) = 1} :
        Constructed(<<>>, [key \in Keys |-> NoRow], TwoEngines, k, vid,
                    [e \in EngineNames |-> IF e = good THEN {"ok"} ELSE {"fail"}], 1)

CountScenarioNext ==
    \/ StartRun
    \/ ScanDone(CountScenarioFiles)
    \/ \E f \in AllPaths, o \in Outcomes : EngineReturn(f, o)
    \/ Settle
    \/ StartRunResume

CountScenarioSpec == CountScenarioInit /\ [][CountScenarioNext]_vars

\* The stop scenario: five files, max-concurrency 1, stop requests at any time
StopScenarioInit ==
    \E skipped \in {{}, {"ffsubsync"}}, vid \in [AllPaths -> BOOLEAN] :
        Constructed(<<>>, [key \in Keys |->
                             IF key[2] \in skipped THEN PersistedTracking(skipped)[<<1, key[2]>>]
                             ELSE NoRow],
                    TwoEngines, 1, vid, OkOrFail, 1)

StopScenarioNext ==
    \/ StartRun
    \/ ScanDone(StopScenarioFiles)
    \/ StopRun
    \/ \E f \in AllPaths, o \in Outcomes : EngineReturn(f, o)
    \/ Settle
    \/ StartRunResume

StopScenarioSpec == StopScenarioInit /\ [][StopScenarioNext]_vars

\* Several runs of one process; the callbacks the promise machinery has queued
\* (the finally callback, the resumption of startRun) are always run
LiveInit ==
    \E old \in PersistedRuns :
        Constructed(old, [key \in Keys |-> NoRow], OneEngine, 1,
                    [f \in AllPaths |-> f = 1], OkOrFail, MaxRuns)

LiveSpec ==
    LiveInit /\ [][Next]_vars /\ WF_vars(Settle) /\ WF_vars(StartRunResume)

\* Batching: three files, concurrency 1 or 2, one engine, skip and stop
\* requests at any time
BatchInit ==
    \E k \in 1..MaxConcurrent,
       vid \in {v \in [AllPaths -> BOOLEAN] : \A f \in AllPaths : ~v[f] => f \in {1, 2, 3}} :
        Constructed(<<>>, [key \in Keys |-> NoRow], OneEngine, k, vid, OkOrFail, 1)

BatchNext ==
    \/ StartRun
    \/ ScanDone(CountScenarioFiles)
    \/ StopRun
    \/ \E p \in {1, 2, 3} : SkipFile(p)
    \/ \E f \in AllPaths, o \in Outcomes : EngineReturn(f, o)
    \/ Settle
    \/ StartRunResume

BatchSpec == BatchInit /\ [][BatchNext]_vars

\* Faults: two engines whose invocations may fail, time out or throw, a
\* processFile that may reject, stop requests at any time; one start
AnyOutcome == [e \in EngineNames |-> Outcomes]
FaultInit ==
    \E k \in 1..MaxConcurrent, vid \in VideoChoices :
        Constructed(<<>>, [key \in Keys |-> NoRow], TwoEngines, k, vid, AnyOutcome, 1)

FaultNext ==
    \/ StartRun
    \/ \E files \in ScanChoices : ScanDone(files)
    \/ ScanFail
    \/ StopRun
    \/ \E f \in AllPaths, o \in Outcomes : EngineReturn(f, o)
    \/ \E f \in AllPaths : ProcessFail(f)
    \/ \E f \in AllPaths, o \in Outcomes : OrphanReturn(f, o)
    \/ Settle
    \/ StartRunResume

FaultSpec == FaultInit /\ [][FaultNext]_vars

\* Retention: several runs of one process, each with one file, and the
\* periodic cleanup at any time
MaxLogLength == 2
RetentionInit ==
    \E old \in PersistedRuns :
        Constructed(old, [key \in Keys |-> NoRow], OneEngine, 1,
                    [f \in AllPaths |-> TRUE], [e \in EngineNames |-> {"ok"}], MaxRuns)

RetentionNext ==
    \/ StartRun
    \/ StopRun
    \/ ScanDone(<<1>>)
    \/ \E f \in AllPaths, o \in Outcomes : EngineReturn(f, o)
    \/ Settle
    \/ StartRunResume
    \/ \E trimCutoff, keepCutoff \in 0..MaxClock, maxLogSize \in 1..MaxLogLength :
          Cleanup(trimCutoff, keepCutoff, maxLogSize)

RetentionSpec == RetentionInit /\ [][RetentionNext]_vars

\* Termination: one start; the scan returns, every engine invocation returns
\* or times out, and the callbacks the promise machinery has queued are run
OkOrTimeout == [e \in EngineNames |-> {"ok", "timeout"}]
TerminationInit ==
    \E k \in 1..MaxConcurrent :
        Constructed(<<>>, [key \in Keys |-> NoRow], OneEngine, k,
                    [f \in AllPaths |-> TRUE], OkOrTimeout, 1)

TerminationSpec ==
    /\ TerminationInit /\ [][Next]_vars
    /\ WF_vars(\E files \in ScanChoices : ScanDone(files))
    /\ \A f \in Paths : WF_vars(\E o \in Outcomes : EngineReturn(f, o))
    /\ WF_vars(Settle) /\ WF_vars(StartRunResume)

\* ------------------------------------------------------------- properties
EventAt == 1..Len(events)
IsCompletion(i) == events[i].type = "file:engine_completed"
IsSynthetic(i) == IsCompletion(i) /\ events[i].result.skipped
Completions == {i \in EventAt : IsCompletion(i)}
EngineNo(e) == CHOOSE n \in 1..Len(enabledEngines) : enabledEngines[n] = e
RunningRuns == {i \in 1..Len(runs) : runs[i].status = "running"}
\* no part of a run is pending: processRun has settled and its finally ran
Settled == processingPromise = "null" /\ enginePc = "idle" /\ startPc = "idle"
StatusIn(frs, f) ==
    LET rows == {i \in 1..Len(frs) : frs[i].file_path = f}
    IN frs[CHOOSE i \in rows : TRUE].status
FileStatus(f) == StatusIn(fileResults, f)

\* C1: in every reachable state at most one Run of the store has status
\* "running", whatever the interleaving of startRun, stopRun, skipFile, engine
\* completions and settlement.
C1_AtMostOneRunning == Cardinality(RunningRuns) <= 1

\* a second run of this process is running, next to the recovered run
C1_Witness ==
    /\ Len(runs) = 3
    /\ Cardinality(RunningRuns) = 1
    /\ runs[2].status \in {"completed", "cancelled"}

\* C2: startRun while the in-flight reference is set rejects with "A run is
\* already in progress" and changes no Run, no FileResult, not the cancelled
\* set, not the coordinator's run id, not its pending-stop flag.
C2_StartWhileInFlightRejects ==
    [][(StartRun /\ processingPromise = "pending") =>
          /\ lastCall' = Call("startRun", "A run is already in progress", Null)
          /\ UNCHANGED <<runs, fileResults, cancelledFiles, currentRunId, stopRequested>>]_vars

\* a start was rejected in the drain phase after a stop
C2_Witness ==
    /\ lastCall = Call("startRun", "A run is already in progress", Null)
    /\ processingPromise = "pending"
    /\ enginePc = "processing"
    /\ smCurrentRunId = Null
    /\ cancelledFiles # {}

\* C3: for every key, shouldSkip is true exactly when 3 or more recordFailure
\* calls were made since the last recordSuccess / resetSkip (false after the
\* 1st and 2nd, true from the 3rd on); recordSuccess leaves a record with count
\* 0 and shouldSkip false, creating it if absent.
C3_SkipAfterThirdFailure ==
    /\ [](\A k \in Keys : shouldSkipEngine(tracking, k[1], k[2]) <=> streak[k] >= 3)
    /\ [][\A f \in Paths, e \in EngineNames :
            RecordSuccess(f, e) =>
              /\ tracking'[<<f, e>>].present
              /\ tracking'[<<f, e>>].consecutive_failures = 0
              /\ ~shouldSkipEngine(tracking', f, e)]_vars

\* one key just reached its 3rd failure in a row, another had a success
C3_Witness ==
    /\ \E k \in Keys : streak[k] = 3 /\ shouldSkipEngine(tracking, k[1], k[2])
    /\ \E k \in Keys : tracking[k].present /\ tracking[k].consecutive_failures = 0

\* C4: every EngineFailureTracking record has is_skipped = (consecutive_failures >= 3)
\* after any sequence of recordFailure, recordSuccess and resetSkip.
C4_SkippedIffThreeFailures ==
    \A k \in Keys :
        tracking[k].present =>
            (tracking[k].is_skipped <=> tracking[k].consecutive_failures >= 3)

\* a record that was latched and then reset, next to one that is latched
C4_Witness ==
    /\ \E k \in Keys : tracking[k].present /\ tracking[k].is_skipped
                        /\ tracking[k].consecutive_failures = 4
    /\ \E k \in Keys : tracking[k].present /\ ~tracking[k].is_skipped
                        /\ tracking[k].consecutive_failures = 0 /\ streak[k] = 0

\* C5: every file:engine_completed event of a real engine invocation is
\* followed by the matching update of the failure tracker: recordFailure when
\* success is false (the key then has a record counting at least one failure),
\* recordSuccess when it is true (the key then has a record with count 0).
C5_TrackerUpdatedAfterResult ==
    \A i \in EventAt :
        (IsCompletion(i) /\ ~events[i].result.skipped) =>
            LET row == getEngineFailureTracking(tracking, events[i].path, events[i].engine)
            IN /\ row.present
               /\ IF events[i].result.success THEN row.consecutive_failures = 0
                  ELSE row.consecutive_failures >= 1

\* C6: an engine for which shouldSkip holds is never started: it gets exactly
\* one file:engine_completed carrying the synthetic result {success:false,
\* skipped:true, duration:0, message}, no file:engine_started, and the file goes
\* straight on to its next engine (or to its outcome after the last engine, or
\* to "skipped" if it was cancelled); every engine that is started was checked
\* and found not latched.
SkipSynthesized(message) ==
    \A i \in EventAt :
        /\ events[i].type = "file:engine_started" =>
              ~shouldSkipEngine(tracking, events[i].path, events[i].engine)
        /\ IsCompletion(i) =>
              (events[i].result.skipped <=>
                  shouldSkipEngine(tracking, events[i].path, events[i].engine))
        /\ IsSynthetic(i) =>
              LET f == events[i].path
                  e == events[i].engine
              IN /\ events[i].result.success = FALSE
                 /\ events[i].result.duration = 0
                 /\ events[i].result.message = message
                 /\ ~\E j \in EventAt : /\ events[j].type = "file:engine_started"
                                        /\ events[j].path = f /\ events[j].engine = e
                 /\ Cardinality({j \in Completions :
                                   events[j].path = f /\ events[j].engine = e}) = 1
                 /\ i < Len(events)
                 /\ events[i + 1].path = f
                 /\ IF EngineNo(e) < Len(enabledEngines)
                    THEN \/ /\ events[i + 1].type \in {"file:engine_started",
                                                        "file:engine_completed"}
                            /\ events[i + 1].engine = enabledEngines[EngineNo(e) + 1]
                         \/ events[i + 1].type = "file:skipped" /\ f \in cancelledFiles
                    ELSE events[i + 1].type \in {"file:completed", "file:skipped",
                                                 "file:failed"}

\* C6 as stated, with the message "skipped: repeated failures"
C6_SkipSynthesized_AsStated == SkipSynthesized("skipped: repeated failures")

\* C6 with the message the engine emits
C6_SkipSynthesized == SkipSynthesized("Skipped due to 3+ consecutive failures")

\* a file whose first engine was skipped by the tracker and whose second one
\* was invoked and came back
C6_Witness ==
    \E i, j \in EventAt :
        /\ i < j
        /\ IsSynthetic(i) /\ events[i].engine = "ffsubsync"
        /\ IsCompletion(j) /\ ~events[j].result.skipped
        /\ events[j].path = events[i].path /\ events[j].engine = "autosubsync"

\* C7: every Run has total_engines = total_files * (number of enabled engines),
\* and once the run has settled its completed_engines is the number of
\* file:engine_completed events the engine emitted during it.
C7_EngineCounters ==
    /\ \A i \in 1..Len(runs) :
          runs[i].total_engines = runs[i].total_files * Len(enabledEngines)
    /\ (Settled /\ Len(runs) = 1) =>
          runs[1].completed_engines = Cardinality(Completions)

\* a settled run over two files in which both engines reported for both
C7_Witness ==
    /\ Settled /\ Len(runs) = 1
    /\ runs[1].total_files = 2 /\ runs[1].total_engines = 4
    /\ runs[1].completed_engines = 4
    /\ \E i \in Completions : events[i].result.skipped
    /\ \E i \in Completions : ~events[i].result.skipped

\* C8: the 3-file run (1 file without video, 2 engines, one always succeeding
\* and one always failing, no cancellation, no tracker skip) ends with the
\* given counters.
CountScenarioEnds(totalEngines) ==
    (Settled /\ Len(runs) = 1) =>
        /\ runs[1].total_files = 3
        /\ runs[1].total_engines = totalEngines
        /\ runs[1].completed_engines = 4
        /\ runs[1].completed = 2
        /\ runs[1].failed = 1
        /\ runs[1].skipped = 0

\* C8 as stated: total_engines = 4
C8_ScenarioCounters_AsStated == CountScenarioEnds(4)

\* C8 with total_engines = 3 files * 2 engines = 6
C8_ScenarioCounters == CountScenarioEnds(6)

\* the scenario's run has settled as completed
C8_Witness ==
    /\ Settled /\ Len(runs) = 1
    /\ runs[1].status = "completed" /\ runs[1].end_time # Null
    /\ Cardinality(Completions) = 4

\* C9: on the 5-file run with max-concurrency 1, when stopRun takes effect
\* after files_found and before any engine has completed, then once the run
\* has settled every file whose processing had not begun at the stop has status
\* "skipped", and the Run has status "cancelled" and an end_time.
StopAt == CHOOSE i \in EventAt : events[i] = StopLogged /\
                                  \A j \in 1..(i - 1) : events[j] # StopLogged
StoppedBeforeAnyCompletion ==
    /\ \E i \in EventAt : events[i] = StopLogged
    /\ \E j \in 1..(StopAt - 1) : events[j].type = "run:files_found"
    /\ \A j \in 1..(StopAt - 1) : ~IsCompletion(j)
NotBegunAtStop(f) == \A j \in 1..(StopAt - 1) : events[j].path # f
C9_StopSkipsRemaining ==
    (Settled /\ Len(runs) = 1 /\ StoppedBeforeAnyCompletion) =>
        /\ \A i \in 1..Len(srtFiles) :
              NotBegunAtStop(srtFiles[i]) => FileStatus(srtFiles[i]) = "skipped"
        /\ runs[1].status = "cancelled"
        /\ runs[1].end_time # Null

\* the stop came while the third file was at its first engine, the first two
\* having no video
C9_Witness ==
    /\ Settled /\ Len(runs) = 1 /\ StoppedBeforeAnyCompletion
    /\ Len(srtFiles) = 5
    /\ FileStatus(1) = "error" /\ FileStatus(2) = "error"
    /\ ~NotBegunAtStop(3)
    /\ NotBegunAtStop(4) /\ NotBegunAtStop(5)
    /\ \E i \in Completions : events[i].path = 3

\* C10: when the constructor of the store manager returns, every Run it found
\* "running" is "cancelled" with end_time equal to its own start_time, every
\* other Run is as it was, and no Run is "running".
C10_RecoveryCancelsRunning ==
    enginePc = "idle" =>
        /\ Len(runs) = Len(persisted)
        /\ \A i \in 1..Len(persisted) :
              IF persisted[i].status = "running"
              THEN runs[i] = [persisted[i] EXCEPT !.status = "cancelled",
                                                  !.end_time = persisted[i].start_time]
              ELSE runs[i] = persisted[i]
        /\ RunningRuns = {}

\* the constructor ran on a store holding a running and a completed Run
C10_Witness ==
    /\ enginePc = "idle"
    /\ \E i \in 1..Len(persisted) : persisted[i].status = "running"
    /\ \E i \in 1..Len(persisted) : persisted[i].status = "completed"

\* C11: startRun does not resolve while the scan is running, and when it
\* resolves with an id, that id is the id of the Run this start allocated (the
\* newest Run of the store), and the store holds that Run and exactly one
\* FileResult of it for every file the scan found.
C11_StartResolvesAfterAllocation ==
    /\ [](enginePc = "scanning" => startPc = "racing")
    /\ [][(lastCall' # lastCall /\ lastCall'.op = "startRun" /\ lastCall'.outcome = "ok") =>
            LET id == lastCall'.runId
                rows == getFileResults(fileResults', id)
            IN /\ enginePc # "scanning"
               /\ id # Null
               /\ HasRun(runs', id)
               /\ id = runs'[Len(runs')].id
               /\ getRun(runs', id).total_files = Len(srtFiles')
               /\ Len(rows) = Len(srtFiles')
               /\ \A i \in 1..Len(srtFiles') :
                     Cardinality({j \in 1..Len(rows) :
                                    rows[j].file_path = srtFiles'[i]}) = 1]_vars

\* the second start of this process returned the id of its run over two files
C11_Witness ==
    /\ lastCall.op = "startRun" /\ lastCall.outcome = "ok"
    /\ Len(runs) = 3 /\ lastCall.runId = runs[3].id
    /\ Len(srtFiles) = 2
    /\ Len(getFileResults(fileResults, lastCall.runId)) = 2

\* C12: when the scan fails, no Run and no FileResult is created by that
\* start (none is current, nothing was emitted, the tables stay as they are
\* while the failure is handled), and startRun rejects with the failure of the
\* scan instead of returning an id.
C12_ScanFailureRejectsStart ==
    /\ []((enginePc = "failed" \/ startPc = "rejected") =>
             /\ smCurrentRunId = Null /\ currentRunId = Null /\ events = <<>>
             /\ \A i \in 1..Len(runs) : runs[i].status # "running")
    /\ [][(enginePc' = "failed" \/ enginePc = "failed" \/ startPc = "rejected") =>
             UNCHANGED <<runs, fileResults>>]_vars
    /\ [][(startPc = "rejected" /\ startPc' # "rejected") =>
             lastCall' = Call("startRun", "Scan failed", Null)]_vars

\* the second start of this process was rejected with the failure of its scan
C12_Witness ==
    /\ lastCall = Call("startRun", "Scan failed", Null)
    /\ startsLeft = MaxRuns - 2
    /\ Len(runs) = 2
    /\ processingPromise = "null"

\* C13: a stopRun made while startRun is in flight and no Run exists yet
\* returns without error; whatever the scan then finds (no file included), when
\* startRun resumes with the id the stop is applied (every FileResult path of
\* the Run is in the cancelled set, the Run is "cancelled") and startRun rejects
\* with "Run was stopped during initialization".
QueuedStopApplied(scans) ==
    /\ (StopRun /\ enginePc = "scanning") =>
          lastCall' = Call("stopRun", "queued", Null) /\ stopRequested' = TRUE
    /\ (StartRunResume /\ startPc = "resolved" /\ stopRequested /\ srtFiles \in scans) =>
          LET rows == getFileResults(fileResults', startRunId)
          IN /\ lastCall' = Call("startRun", "Run was stopped during initialization", Null)
             /\ getRun(runs', startRunId).status = "cancelled"
             /\ \A i \in 1..Len(rows) : rows[i].file_path \in cancelledFiles'

C13_QueuedStopApplied == [][QueuedStopApplied(ScanChoices)]_vars

\* C14: stopRun called while the store has a current Run puts the path of
\* every FileResult of that Run into the cancelled set and marks that Run
\* "cancelled" with an end_time, all within the call, which returns normally.
C14_StopCancelsCurrentRun ==
    [][(StopRun /\ smCurrentRunId # Null) =>
          LET rows == getFileResults(fileResults, smCurrentRunId)
          IN /\ lastCall' = Call("stopRun", "stopped", Null)
             /\ \A i \in 1..Len(rows) : rows[i].file_path \in cancelledFiles'
             /\ getRun(runs', smCurrentRunId).status = "cancelled"
             /\ getRun(runs', smCurrentRunId).end_time # Null
             /\ fileResults' = fileResults]_vars

\* a run over two files was stopped while it was processing
C14_Witness ==
    /\ lastCall = Call("stopRun", "stopped", Null)
    /\ enginePc = "processing"
    /\ Len(srtFiles) = 2 /\ cancelledFiles = {1, 2}
    /\ runs[Len(runs)].status = "cancelled" /\ runs[Len(runs)].end_time # Null

\* C15: stopRun called while nothing is in flight is rejected with "No run is
\* currently in progress" and changes no Run, no FileResult, not the cancelled
\* set and not the pending-stop flag.
C15_StopWhileIdleRejects ==
    [][(StopRun /\ ~isRunning(State)) =>
          /\ lastCall' = Call("stopRun", "No run is currently in progress", Null)
          /\ UNCHANGED <<runs, fileResults, cancelledFiles, stopRequested,
                         smCurrentRunId, currentRunId, processingPromise>>]_vars

\* a stop was rejected after a run of this process had settled
C15_Witness ==
    /\ lastCall = Call("stopRun", "No run is currently in progress", Null)
    /\ processingPromise = "null"
    /\ Len(runs) = 2 /\ runs[2].status = "completed"
    /\ ~stopRequested

\* C16: whenever processRun has settled (returned or failed, before or after
\* the Run exists, stopped or not) the in-flight reference gets cleared: the
\* finally callback clears it, it is never left set once that callback has
\* run, and a startRun made while it is clear is accepted.
C16_InFlightFlagCleared ==
    /\ [](enginePc = "idle" => ~isRunning(State))
    /\ [][Settle => processingPromise' = "null"]_vars
    /\ (enginePc \in {"returned", "failed"}) ~> (processingPromise = "null")
    /\ [][(StartRun /\ processingPromise = "null") =>
             lastCall' = Call("startRun", "pending", Null)]_vars

\* the start after a start whose scan failed was accepted
C16_Witness ==
    /\ lastCall = Call("startRun", "pending", Null)
    /\ startsLeft = MaxRuns - 2
    /\ Len(runs) = 1
    /\ processingPromise = "pending"

\* C17: files are processed in consecutive batches of max-concurrency in scan
\* order: no event of a file occurs before every file of every earlier batch
\* has had its terminal event, files are entered in scan order, and at most
\* max-concurrency engine invocations are in flight at any instant.
TerminalEvents == {"file:completed", "file:skipped", "file:no_video", "file:failed"}
Pos(f) == CHOOSE q \in 1..Len(srtFiles) : srtFiles[q] = f
BatchNo(q) == (q - 1) \div maxConcurrent
FileEvents == {j \in EventAt : events[j].path # Null}
InFlight == {f \in AllPaths : fileState[f].pc = "running"}
C17_BatchesSequential ==
    /\ \A j \in FileEvents :
          \A q \in 1..Len(srtFiles) :
              /\ BatchNo(q) < BatchNo(Pos(events[j].path)) =>
                    \E i \in 1..(j - 1) : /\ events[i].path = srtFiles[q]
                                          /\ events[i].type \in TerminalEvents
              /\ q < Pos(events[j].path) =>
                    \E i \in 1..(j - 1) : events[i].path = srtFiles[q]
    /\ Cardinality(InFlight) <= maxConcurrent

\* with concurrency 2 the third file is at its engine, after the first two
\* were at theirs together and both finished
C17_Witness ==
    /\ maxConcurrent = 2 /\ Len(srtFiles) = 3
    /\ fileState[3].pc = "running"
    /\ \E a, b, c \in EventAt :
          /\ a < b /\ b < c
          /\ events[a].type = "file:engine_started" /\ events[a].path = 1
          /\ events[b].type = "file:engine_started" /\ events[b].path = 2
          /\ events[c].type = "file:engine_completed" /\ events[c].path = 1

\* C18: cancellation is cooperative.  For a path that is in the cancelled set,
\* a step emits no file:started and no file:engine_started; the only engine
\* result it emits is the one of the invocation that was in flight; the file
\* ends "skipped" at the next check (only an invocation of the last engine,
\* after which there is no check, lets it end by its results).  An invocation
\* in flight ends only by delivering its file:engine_completed.
NewEvents ==
    IF Len(events') >= Len(events) /\ SubSeq(events', 1, Len(events)) = events
    THEN (Len(events) + 1)..Len(events') ELSE {}
CooperativeCancellation ==
    /\ \A j \in NewEvents :
          LET f == events'[j].path
              type == events'[j].type
              inFlight == fileState[f].pc = "running"
          IN (f # Null /\ f \in cancelledFiles) =>
                /\ type \notin {"file:started", "file:engine_started", "file:no_video"}
                /\ type = "file:engine_completed" =>
                      /\ inFlight
                      /\ ~events'[j].result.skipped
                      /\ events'[j].engine = enabledEngines[fileState[f].engineIdx]
                /\ type \in {"file:completed", "file:failed"} =>
                      inFlight /\ fileState[f].engineIdx = Len(enabledEngines)
                /\ type = "file:skipped" => StatusIn(fileResults', f) = "skipped"
                /\ (inFlight /\ fileState[f].engineIdx < Len(enabledEngines)) =>
                      StatusIn(fileResults', f) = "skipped"
                /\ ~inFlight => StatusIn(fileResults', f) = "skipped"
    /\ \A f \in AllPaths :
          (fileState[f].pc = "running" /\ fileState'[f].pc # "running") =>
              \E j \in NewEvents :
                  /\ events'[j].type = "file:engine_completed"
                  /\ events'[j].path = f
                  /\ events'[j].engine = enabledEngines[fileState[f].engineIdx]
                  /\ ~events'[j].result.skipped

C18_CancellationCooperative == [][CooperativeCancellation]_vars

\* a file cancelled while its first engine ran: the result of that engine was
\* delivered, the second engine was not started, the file ended "skipped"
C18_Witness ==
    \E f \in Paths :
        /\ f \in cancelledFiles
        /\ fileState[f].pc = "done"
        /\ FileStatus(f) = "skipped"
        /\ \E a, b \in EventAt :
              /\ a < b
              /\ events[a] = Event("file:engine_completed", f, "ffsubsync", ResultOf("ffsubsync", "ok"))
              /\ events[b].type = "file:skipped" /\ events[b].path = f
        /\ ~\E j \in EventAt : events[j].path = f /\ events[j].engine = "autosubsync"

\* C19: skipFile is idempotent: in every state and for every path, a second
\* skipFile(p) leaves the whole state as the first one left it (so everything
\* that follows is the same), and a file has at most one file:skipped event and
\* counts once in Run.skipped.
SkippedEvents(f) == {j \in EventAt : events[j].type = "file:skipped" /\ events[j].path = f}
C19_SkipFileIdempotent ==
    /\ \A p \in AllPaths :
          /\ skipFile(skipFile(State, p), p) = skipFile(State, p)
          /\ p \in cancelledFiles => skipFile(State, p) = State
    /\ \A f \in AllPaths : Cardinality(SkippedEvents(f)) <= 1
    /\ Len(runs) = 1 =>
          runs[1].skipped = Cardinality({f \in AllPaths : SkippedEvents(f) # {}})

\* a run has settled in which one file was skipped on request and counted once
C19_Witness ==
    /\ Settled /\ Len(runs) = 1 /\ Len(srtFiles) = 2
    /\ cancelledFiles = {1}
    /\ FileStatus(1) = "skipped"
    /\ runs[1].skipped = 1

\* C20: merging an engine result into a FileResult and reading the FileResult
\* back gives the same success, duration and message under that engine key;
\* the entries of the other engine keys of that file and every other
\* FileResult are as before.  Checked in every reachable state for every
\* FileResult, engine key and result, and for the results the run has stored.
AnyResult == {ResultOf(e, o) : e \in EngineNames, o \in Outcomes} \cup {SyntheticSkip}
SameOutcome(a, b) ==
    a.success = b.success /\ a.duration = b.duration /\ a.message = b.message
C20_EngineResultRoundTrip ==
    /\ \A r \in 1..Len(fileResults), e \in EngineNames, res \in AnyResult :
          LET row == fileResults[r]
              before == JSON_parse(row.engines)
              after == updateFileEngine(State, row.run_id, row.file_path, e, res).fileResults
              back == JSON_parse(after[r].engines)
          IN /\ Len(after) = Len(fileResults)
             /\ e \in DOMAIN back.val /\ SameOutcome(back.val[e], res)
             /\ DOMAIN back.val = DOMAIN before.val \cup {e}
             /\ \A e2 \in DOMAIN before.val \ {e} : back.val[e2] = before.val[e2]
             /\ after[r] = [row EXCEPT !.engines = after[r].engines]
             /\ \A r2 \in 1..Len(fileResults) : r2 # r => after[r2] = fileResults[r2]
    /\ \A j \in Completions :
          \A r \in 1..Len(fileResults) :
              fileResults[r].file_path = events[j].path =>
                  LET back == JSON_parse(fileResults[r].engines)
                  IN /\ events[j].engine \in DOMAIN back.val
                     /\ SameOutcome(back.val[events[j].engine], events[j].result)

\* a FileResult holds the result of a failed first and of a successful second
\* engine
C20_Witness ==
    \E r \in 1..Len(fileResults) :
        LET back == JSON_parse(fileResults[r].engines)
        IN /\ DOMAIN back.val = {"ffsubsync", "autosubsync"}
           /\ ~back.val["ffsubsync"].success
           /\ back.val["autosubsync"].success

\* ------------------------------------------------------------------ C21
\* the columns of a Run other than its log text (appendLog is not one of the
\* calls the claim lists)
RunColumns(run) == [run EXCEPT !.logs = <<>>]
StoredFile(key) ==
    LET found == {i \in 1..Len(fileResults) :
                    fileResults[i].run_id = key[1] /\ fileResults[i].file_path = key[2]}
    IN fileResults[CHOOSE i \in found : TRUE]

\* C21: whenever no StateManager call is executing, the last payload the
\* listeners received for a Run equals the stored Run (log text aside), and
\* the last payload received for a FileResult equals the stored FileResult.
C21_ListenersSeeStoredState ==
    /\ \A id \in DOMAIN heard.run :
         RunColumns(heard.run[id]) = RunColumns(getRun(runs, id))
    /\ \A key \in DOMAIN heard.file : heard.file[key] = StoredFile(key)

\* ------------------------------------------------------------------ C22
\* the terminal event of file f, once it is emitted
Terminal(f) == {j \in EventAt : events[j].path = f /\ events[j].type \in TerminalEvents}
Succeeded(f) == \E j \in Completions : events[j].path = f /\ events[j].result.success
TrackerSkipsAll(f) ==
    \A n \in 1..Len(enabledEngines) : shouldSkipEngine(tracking, f, enabledEngines[n])

Added == SubSeq(events', Len(events) + 1, Len(events'))
StoredEngines(frs, f) ==
    LET rows == {i \in 1..Len(frs) : frs[i].file_path = f}
    IN JSON_parse(frs[CHOOSE i \in rows : TRUE].engines)
Unprocessed(evs, files) ==
    {q \in 1..Len(files) :
        ~\E j \in 1..Len(evs) : evs[j].path = files[q] /\ evs[j].type \in TerminalEvents}

\* what the return of a failed invocation for file f does
FailureDoesNotAbort(f) ==
    LET n == fileState[f].engineIdx
        engine == enabledEngines[n]
    IN /\ Len(Added) >= 2
       /\ Added[1].type = "file:engine_completed"
       /\ Added[1].path = f /\ Added[1].engine = engine
       /\ ~Added[1].result.success /\ ~Added[1].result.skipped
       /\ ~StoredEngines(fileResults', f).val[engine].success
       /\ f \notin cancelledFiles =>
             IF n < Len(enabledEngines)
             THEN /\ Added[2] = Event("file:engine_started", f, enabledEngines[n + 1], NoResult)
                  /\ fileState'[f].pc = "running"
             ELSE /\ Added[2].path = f
                  /\ Added[2].type = (IF fileState[f].anyEngineSucceeded
                                       THEN "file:completed" ELSE "file:failed")
       /\ enginePc' \in {"processing", "returned"}
       /\ enginePc' = "returned" <=> Unprocessed(events', srtFiles) = {}
       /\ \A q \in Unprocessed(events', srtFiles) :
             \/ fileState'[srtFiles[q]].pc = "running"
             \/ q >= batchAt' + maxConcurrent

\* C23: when an engine invocation fails, times out or throws, a
\* file:engine_completed with success=false is emitted and stored for it, the
\* next enabled engine is started for the file (the file ends as completed or
\* failed after the last one), processRun goes on, and it returns only when
\* every file of the run has reached its terminal event.
C23_EngineFailureDoesNotAbort ==
    [][\A f \in Paths : \A o \in Outcomes \ {"ok"} :
          EngineReturn(f, o) => FailureDoesNotAbort(f)]_vars

\* a finished run: a timeout and an exception on one file, and on the other
\* file a failure of the second engine after the first one succeeded
C23_Witness ==
    /\ enginePc = "returned" /\ Len(srtFiles) = 2 /\ cancelledFiles = {}
    /\ \E i, j \in Completions :
          /\ events[i].path = 1 /\ events[j].path = 1 /\ i < j
          /\ events[i].result.message = "Timeout"
          /\ events[j].result.message = "exception"
    /\ \E i, j \in Completions :
          /\ events[i].path = 2 /\ events[j].path = 2 /\ i < j
          /\ events[i].result.success /\ ~events[j].result.success
    /\ \E j \in EventAt : events[j] = Event("file:failed", 1, NoEngine, NoResult)
    /\ \E j \in EventAt : events[j] = Event("file:completed", 2, NoEngine, NoResult)

\* ------------------------------------------------------------------ C24
StartedEngines(f) == {j \in EventAt : events[j].path = f /\ events[j].type = "file:engine_started"}
RunOf(f) ==
    LET rows == {i \in 1..Len(fileResults) : fileResults[i].file_path = f}
    IN getRun(runs, fileResults[CHOOSE i \in rows : TRUE].run_id)
NoVideoEnded == {f \in Paths : Terminal(f) # {} /\ ~video[f] /\ f \notin cancelledFiles}

\* C24: a file without a video match that nobody cancelled ends with
\* file:no_video and FileResult status "error"; no engine is started and no
\* file:engine_completed is emitted for it; each such file adds exactly one to
\* Run.failed, and processRun returns only after every file has ended.
C24_NoVideoIsError ==
    /\ \A f \in NoVideoEnded :
          /\ \A j \in Terminal(f) : events[j].type = "file:no_video"
          /\ Cardinality(Terminal(f)) = 1
          /\ FileStatus(f) = "error"
          /\ StartedEngines(f) = {}
          /\ ~\E j \in Completions : events[j].path = f
          /\ fileState[f].pc = "done"
    /\ cancelledFiles = {} /\ Len(fileResults) > 0 =>
          RunOf(srtFiles[1]).failed =
              Cardinality({f \in Paths : \E j \in Terminal(f) :
                              events[j].type \in {"file:no_video", "file:failed"}})
    /\ enginePc = "returned" => Unprocessed(events, srtFiles) = {}

\* the first of two files had no video, and the second one was processed
\* after it
C24_Witness ==
    /\ Len(srtFiles) = 2 /\ maxConcurrent = 1 /\ cancelledFiles = {}
    /\ ~video[1] /\ video[2]
    /\ Terminal(1) # {} /\ FileStatus(1) = "error"
    /\ \E j \in Terminal(2) : events[j].type = "file:completed"
    /\ RunOf(1).failed = 1

\* ------------------------------------------------------------------ C25
\* C25: at most one run:started listener of startRun is ever registered, and
\* none is left once the startRun call has settled (returned or thrown).
C25_StartListenerRemoved ==
    /\ runStartedListeners <= 1
    /\ startPc = "idle" => runStartedListeners = 0

\* a second start has just been rejected by a failed scan
C25_Witness ==
    /\ startPc = "idle" /\ startsLeft = MaxRuns - 2
    /\ lastCall = Call("startRun", "Scan failed", Null)
    /\ runStartedListeners = 0

\* ------------------------------------------------------------------ C26
\* the finally callback runs after processRun rejected with its Run still
\* current (allocated, and no stop has cancelled it)
FailureFinalized ==
    (enginePc = "failed" /\ smCurrentRunId # Null /\ enginePc' = "idle") =>
        LET run == getRun(runs', smCurrentRunId)
        IN /\ run.status = "completed" /\ run.end_time # Null
           /\ run.end_time >= run.start_time
           /\ processingPromise' = "null"
           /\ currentRunId' = Null /\ smCurrentRunId' = Null
           /\ startPc = "idle" /\ startPc' = "idle"
           /\ lastCall' = lastCall

\* C26: when processRun rejects after its Run was allocated and no stop was
\* issued, the finally callback sets the Run to "completed" with an end_time,
\* clears the in-flight reference and both current run ids, and the startRun
\* call that returned the id keeps its outcome.
C26_FailureFinalizesRun == [][FailureFinalized]_vars

\* a processFile rejected, and the run was finalized as completed
C26_Witness ==
    /\ enginePc = "idle" /\ processingPromise = "null"
    /\ \E f \in Paths : fileState[f].pc = "rejected"
    /\ Len(runs) = 1 /\ runs[1].status = "completed" /\ runs[1].end_time # Null
    /\ lastCall = Call("startRun", "ok", 1)

\* ------------------------------------------------------------------ C27
\* what the return of a timed-out invocation for file f does
TimeoutDistinguished(f) ==
    LET engine == enabledEngines[fileState[f].engineIdx]
    IN /\ Added[1].type = "file:engine_completed"
       /\ Added[1].path = f /\ Added[1].engine = engine
       /\ ~Added[1].result.success
       /\ Added[1].result.message # ResultOf(engine, "fail").message
       /\ enginePc' \in {"processing", "returned"}

\* C27: for every enabled engine, an invocation that ran into the timeout
\* yields a result with success=false whose message differs from the one of
\* an ordinary failure of that engine, and processRun goes on.
C27_TimeoutDistinguishable ==
    [][\A f \in Paths : EngineReturn(f, "timeout") => TimeoutDistinguished(f)]_vars

\* ------------------------------------------------------------------ C28
Cleared == [present |-> TRUE, consecutive_failures |-> 0, is_skipped |-> FALSE]
\* the records of file f for the given engines are cleared where they exist;
\* every other key keeps its record, or keeps having none
ResetTouchesOnly(f, engines) ==
    \A k \in Keys :
        IF k[1] = f /\ k[2] \in engines /\ tracking[k].present
        THEN tracking'[k] = Cleared
        ELSE tracking'[k] = tracking[k]

\* C28: resetSkip(file, engine) clears the record of that one key, and
\* resetSkip(file) the records of every engine tracked for the file; all other
\* records are unchanged and no record is created.
C28_ResetSkipFrame ==
    [][\A f \in Paths :
         /\ \A e \in EngineNames : ResetSkip(f, {e}) => ResetTouchesOnly(f, {e})
         /\ ResetSkip(f, EngineNames) => ResetTouchesOnly(f, EngineNames)]_vars

\* one key of file 1 is cleared next to a latched one, file 2 has a latched
\* and an untracked key
C28_Witness ==
    /\ tracking[<<1, "ffsubsync">>] = Cleared /\ streak[<<1, "ffsubsync">>] = 0
    /\ tracking[<<1, "autosubsync">>].is_skipped
    /\ tracking[<<2, "ffsubsync">>].is_skipped
    /\ ~tracking[<<2, "autosubsync">>].present

\* ------------------------------------------------------------------ C29
IsPrefix(s, t) == Len(s) <= Len(t) /\ SubSeq(t, 1, Len(s)) = s
LogsOnlyGrow ==
    \A i \in 1..Len(runs) :
        /\ IsPrefix(runs[i].logs, runs'[i].logs)
        /\ runs[i].id # currentRunId => runs'[i].logs = runs[i].logs
\* the lines processRun logs before it emits run:files_found
ScanLines ==
    <<Line("Scanning for subtitle files...", Null, NoEngine),
      Line("Scan paths", Null, NoEngine),
      Line("Found subtitle files", Len(srtFiles), NoEngine)>>
CurrentLog == getRun(runs, currentRunId).logs

PendingIn(frs, runId, f) ==
    \E i \in 1..Len(frs) :
        frs[i].run_id = runId /\ frs[i].file_path = f /\ frs[i].status = "pending"
Begun(evs, f) == \E j \in 1..Len(evs) : evs[j].path = f
\* the state in which processRun enters its batch loop
AllPendingAtLoopEntry(files, now) ==
    LET S == filesFound(State, files, now)
    IN /\ S.currentRunId # Null
       /\ \A q \in 1..Len(files) :
             /\ PendingIn(S.fileResults, S.currentRunId, files[q])
             /\ ~Begun(S.events, files[q])
             /\ S.fileState[files[q]].pc = "idle"

\* C30: whatever the scan returns, processRun enters its batch loop with a
\* "pending" FileResult stored for every discovered file and with no file
\* event emitted and no engine invoked; later, a discovered file for which
\* no event has been emitted still has its "pending" FileResult.
C30_PendingBeforeProcessing ==
    /\ enginePc = "scanning" =>
          \A files \in ScanChoices, now \in Now : AllPendingAtLoopEntry(files, now)
    /\ currentRunId # Null =>
          \A q \in 1..Len(srtFiles) :
              ~Begun(events, srtFiles[q]) => PendingIn(fileResults, currentRunId, srtFiles[q])

\* two files were found: the first one is with its first engine, the second
\* one has not begun and is pending
C30_Witness ==
    /\ currentRunId # Null /\ Len(srtFiles) = 2
    /\ fileState[1].pc = "running" /\ FileStatus(1) = "processing"
    /\ ~Begun(events, 2) /\ PendingIn(fileResults, currentRunId, 2)

\* ------------------------------------------------------------------ C31
\* C31: in every reachable state, the end_time of a Run is null exactly when
\* its status is "running"; a completed or cancelled Run has its end_time set.
C31_EndTimeIffRunning ==
    \A i \in 1..Len(runs) :
        /\ runs[i].status \in {"running", "completed", "cancelled"}
        /\ (runs[i].end_time = Null) <=> (runs[i].status = "running")

\* the store holds the recovered Run, a completed Run, and a running one
C31_Witness ==
    /\ Len(runs) = 3
    /\ runs[1].status = "cancelled" /\ runs[1].end_time # Null
    /\ runs[2].status = "completed" /\ runs[2].end_time # Null
    /\ runs[3].status = "running" /\ runs[3].end_time = Null

\* ------------------------------------------------------------------ C32
AcceptedStart == StartRun /\ processingPromise = "null"
\* what an accepted startRun leaves of the engine's transient state: an empty
\* cancelled set, and a ring buffer that holds the two lines processRun logs
\* before it awaits the scan
ClearedForScan ==
    /\ cancelledFiles' = {}
    /\ logBuffer' = <<Line("Scanning for subtitle files...", Null, NoEngine),
                      Line("Scan paths", Null, NoEngine)>>
\* the cancelled set changes only by a request made in this step, or by the
\* stop request queued since the start, which startRun applies when it resumes
CancelledByRequestOnly ==
    \/ cancelledFiles' = cancelledFiles
    \/ StopRun /\ cancelledFiles \subseteq cancelledFiles'
    \/ StartRunResume /\ stopRequested /\ cancelledFiles \subseteq cancelledFiles'
    \/ \E p \in Paths : SkipFile(p) /\ cancelledFiles' = cancelledFiles \cup {p}
SkippedAsCancelled(buffer) ==
    {buffer[i][2] : i \in {j \in 1..Len(buffer) : buffer[j][1] = "Skipped (cancelled)"}}

\* C32: every accepted startRun leaves the cancelled set empty and the ring
\* buffer without any line of an earlier run, before the scan returns; after
\* that the cancelled set changes only by a skipFile or stopRun made in that
\* step (or a stopRun queued since the start), so every file the current run skipped as cancelled is in the
\* cancelled set because of a request made since that start.
C32_StartClearsCancelled ==
    /\ [][IF AcceptedStart THEN ClearedForScan ELSE CancelledByRequestOnly]_vars
    /\ [](SkippedAsCancelled(logBuffer) \subseteq cancelledFiles)

\* path 1 was skipped as cancelled in the first run of the process, whose
\* stop request had put both paths into the cancelled set; the second run
\* has completed it, with nothing in the cancelled set
C32_Witness ==
    /\ Len(runs) = 3 /\ currentRunId = runs[3].id /\ cancelledFiles = {}
    /\ runs[2].status = "cancelled"
    /\ \E i \in 1..Len(runs[2].logs) : runs[2].logs[i] = Line("Skipped (cancelled)", 1, NoEngine)
    /\ \E i \in 1..Len(fileResults) :
          /\ fileResults[i].run_id = runs[3].id /\ fileResults[i].file_path = 1
          /\ fileResults[i].status = "completed"

\* ------------------------------------------------------------------ C33
\* an engine invocation is in flight on f for the coordinator's current Run
Invoking(f) == currentRunId # Null /\ fileState[f].pc = "running"
EngineInFlight(f) == enabledEngines[fileState[f].engineIdx]
\* what a reader finds in the store between two steps
StoredEngineOnlyInFlight ==
    \A i \in 1..Len(fileResults) :
        LET row == fileResults[i]
            inFlight == row.run_id = currentRunId /\ Invoking(row.file_path)
        IN /\ row.current_engine # NoEngine =>
                 /\ inFlight /\ row.status = "processing"
                 /\ row.current_engine = EngineInFlight(row.file_path)
           /\ inFlight => row.current_engine # NoEngine
\* what the listeners of file:updated are handed when the invocation on f
\* returns with the given outcome
HeardAtCompletion(f, outcome) ==
    engineCompleted(State, f, outcome).heard.file[<<currentRunId, f>>]

\* C33: a FileResult has a current_engine only while an engine invocation is
\* in flight on its file, in the store as a reader finds it and in the
\* payloads the listeners of file:updated receive: the FileResult they are
\* handed when an invocation has returned has no current_engine.
C33_CurrentEngineOnlyInFlight ==
    /\ StoredEngineOnlyInFlight
    /\ \A f \in Paths, o \in Outcomes :
          Invoking(f) /\ o \in oracle[EngineInFlight(f)] =>
              HeardAtCompletion(f, o).current_engine = NoEngine

\* ------------------------------------------------------------------ C34
RunIds(rs) == {rs[i].id : i \in 1..Len(rs)}
OlderThan(rs, cutoff) == {rs[i].id : i \in {j \in 1..Len(rs) : rs[j].start_time < cutoff}}
WithoutLogs(run) == [k \in DOMAIN run \ {"logs"} |-> run[k]]
\* what the sweep deletes: the runs older than the cutoff, their file
\* results, and nothing else
SweepDeletes(keepCutoff) ==
    /\ RunIds(runs') = RunIds(runs) \ OlderThan(runs, keepCutoff)
    /\ \A i \in 1..Len(fileResults') : fileResults'[i].run_id \in RunIds(runs')
    /\ \A id \in RunIds(runs') :
          getFileResults(fileResults', id) = getFileResults(fileResults, id)

Final(run) == run.status \in {"completed", "cancelled"}
FinalStatusKept ==
    \A i \in 1..Len(runs) :
        Final(runs[i]) =>
            /\ i <= Len(runs') /\ runs'[i].id = runs[i].id
            /\ runs'[i].status = runs[i].status

\* C35: no step changes the status of a Run that is completed or cancelled:
\* a Run that stopRun cancelled stays cancelled when the background run
\* settles later, and no final Run goes back to "running" or over to the
\* other final status.
C35_FinalStatusStable == [][FinalStatusKept]_vars

\* stopRun cancelled the Run of this start while its two files were being
\* processed; the engine drained, the background run has settled, and the
\* Run is still cancelled
C35_Witness ==
    /\ Settled /\ Len(srtFiles) = 2 /\ startsLeft = MaxRuns - 1
    /\ lastCall = Call("stopRun", "stopped", Null)
    /\ \E i \in 1..Len(events) : events[i] = StopLogged
    /\ events[Len(events)].type \in {"file:completed", "file:skipped", "file:failed"}
    /\ runs[Len(runs)].status = "cancelled"

\* ------------------------------------------------------------------ C36
Emitted(types) == Cardinality({i \in EventAt : events[i].type \in types})
TerminalTypes == {"file:completed", "file:skipped", "file:no_video", "file:failed"}
Finished(run) == run.completed + run.skipped + run.failed
\* the counters of the coordinator's Run are the numbers of events emitted
\* since its start
CountersMatchEvents ==
    LET run == getRun(runs, currentRunId)
    IN /\ run.completed = Emitted({"file:completed"})
       /\ run.skipped = Emitted({"file:skipped"})
       /\ run.failed = Emitted({"file:no_video", "file:failed"})
       /\ run.completed_engines = Emitted({"file:engine_completed"})

\* C36: for every concurrency and every order in which the engine
\* invocations of a batch return, every Run has completed + skipped + failed
\* <= total_files and completed_engines <= total_engines; the counters of the
\* current Run count every event emitted for it (no increment is lost); and
\* when the batch loop has finished, completed + skipped + failed =
\* total_files.
C36_CountersConsistent ==
    /\ \A i \in 1..Len(runs) :
          /\ Finished(runs[i]) <= runs[i].total_files
          /\ runs[i].completed_engines <= runs[i].total_engines
    /\ currentRunId # Null => CountersMatchEvents
    /\ (currentRunId # Null /\ enginePc = "returned") =>
          Finished(getRun(runs, currentRunId)) = getRun(runs, currentRunId).total_files

\* two files were in flight in one batch; the second one finished before the
\* first, and the loop has returned with both counted
C36_Witness ==
    /\ maxConcurrent = 2 /\ Len(srtFiles) = 2 /\ enginePc = "returned"
    /\ currentRunId # Null /\ getRun(runs, currentRunId).completed = 2
    /\ \E i, j \in EventAt :
          /\ i < j
          /\ events[i].type = "file:completed" /\ events[i].path = 2
          /\ events[j].type = "file:engine_started" /\ events[j].path = 1

\* ------------------------------------------------------------------ C37
TerminalStatus == {"completed", "skipped", "error"}
RowsOf(runId) == {i \in 1..Len(fileResults) : fileResults[i].run_id = runId}

\* C37: when the batch loop of a run has returned, every FileResult of its
\* Run is completed, skipped or error, whether or not stopRun or skipFile
\* were called during the run; so is every FileResult of an earlier Run of
\* this process.
C37_NoFileLeftUnfinished ==
    \A i \in 1..Len(fileResults) :
        (fileResults[i].run_id # currentRunId \/ enginePc = "returned") =>
            fileResults[i].status \in TerminalStatus

\* stopRun cancelled the Run while its first file was with an engine; that
\* file was completed after the stop and the second one was skipped, and
\* both outcomes are in the store of the cancelled Run
C37_Witness ==
    /\ enginePc = "returned" /\ currentRunId # Null /\ Len(srtFiles) = 2
    /\ getRun(runs, currentRunId).status = "cancelled"
    /\ \E i, j \in RowsOf(currentRunId) :
          /\ fileResults[i].file_path = 1 /\ fileResults[i].status = "completed"
          /\ fileResults[j].file_path = 2 /\ fileResults[j].status = "skipped"
    /\ \E i, j \in EventAt :
          /\ i < j /\ events[i] = StopLogged
          /\ events[j].type = "file:engine_completed" /\ events[j].path = 1

\* ------------------------------------------------------------------ C38
EventsOf(f) == {i \in EventAt : events[i].path = f}
TerminalOf(f) == {i \in EventsOf(f) : events[i].type \in TerminalTypes}
StartsOf(f) == {i \in EventsOf(f) : events[i].type = "file:engine_started"}
\* the position of the next file:engine_started of f after i, or the end
NextStart(f, i) ==
    LET later == {j \in StartsOf(f) : j > i}
    IN IF later = {} THEN Len(events) + 1
       ELSE CHOOSE j \in later : \A k \in later : j <= k
\* the file:engine_completed events of f and the engine started at i, before
\* the next engine of f starts
CompletionsOf(f, i) ==
    {j \in EventsOf(f) : /\ i < j /\ j < NextStart(f, i)
                         /\ IsCompletion(j) /\ events[j].engine = events[i].engine}
FileEventsOrdered(f) ==
    /\ Cardinality(TerminalOf(f)) <= 1
    /\ \A t \in TerminalOf(f), i \in EventsOf(f) : i <= t
    /\ \A i \in StartsOf(f) :
          /\ \E j \in EventsOf(f) : j < i /\ events[j].type = "file:started"
          /\ Cardinality(CompletionsOf(f, i)) <= 1
          \* the next engine starts only when this one has reported
          /\ NextStart(f, i) <= Len(events) => CompletionsOf(f, i) # {}
          \* the invocation is in flight exactly until it has reported
          /\ (NextStart(f, i) > Len(events) /\ CompletionsOf(f, i) = {}) <=>
                (fileState[f].pc = "running" /\ fileState[f].engineIdx = EngineNo(events[i].engine))
    /\ fileState[f].pc = "running" => StartsOf(f) # {} /\ TerminalOf(f) = {}

\* C38: since the start of a run, the engine has emitted at most one
\* terminal event per file and nothing for the file after it, and exactly
\* one for every file when the batch loop has returned; file:started
\* precedes every file:engine_started of the file; a file:engine_started is
\* followed by at most one file:engine_completed of the same engine before
\* the next engine starts, which it does only after that completion: one
\* invocation per file is in flight at most.
C38_FileEventDiscipline ==
    /\ \A f \in Paths : FileEventsOrdered(f)
    /\ enginePc = "returned" =>
          \A q \in 1..Len(srtFiles) : Cardinality(TerminalOf(srtFiles[q])) = 1

\* the loop has returned; file 1 went through both engines, the first of
\* which failed, and file 2 was skipped without having been started
C38_Witness ==
    /\ enginePc = "returned" /\ Len(srtFiles) = 2
    /\ Cardinality(StartsOf(1)) = 2
    /\ \E i \in StartsOf(1) : \E j \in CompletionsOf(1, i) : ~events[j].result.success
    /\ \E t \in TerminalOf(1) : events[t].type = "file:completed"
    /\ EventsOf(2) = TerminalOf(2) /\ Cardinality(TerminalOf(2)) = 1

\* ------------------------------------------------------------------ C39
\* the Run of the current start was cancelled and the engine is still
\* working through its files
Draining ==
    /\ processingPromise = "pending" /\ enginePc = "processing"
    /\ currentRunId # Null /\ smCurrentRunId = Null
    /\ getRun(runs, currentRunId).status = "cancelled"
NewlyCancelled ==
    \E i \in 1..Len(runs') :
        /\ runs'[i].status = "cancelled"
        /\ i <= Len(runs) => runs[i].status # "cancelled"
StoppedDuringInit == Call("startRun", "Run was stopped during initialization", Null)
StopNeverCarriesOver ==
    \* a stopRun during the drain is accepted, and changes neither the store
    \* nor the engine
    /\ (StopRun /\ Draining) =>
          /\ lastCall' = Call("stopRun", "queued", Null)
          /\ UNCHANGED <<runs, fileResults, smCurrentRunId, currentRunId, processingPromise,
                         cancelledFiles, logBuffer, events, enginePc, fileState>>
    \* an accepted start clears the pending-stop flag, and only a stopRun sets it
    /\ AcceptedStart => ~stopRequested'
    /\ (~stopRequested /\ stopRequested') => StopRun
    \* a Run is cancelled, and a start is rejected as stopped, only by a
    \* stopRun or by the flag a stopRun set since that start
    /\ NewlyCancelled => StopRun \/ (StartRunResume /\ stopRequested)
    /\ (lastCall' = StoppedDuringInit /\ lastCall # StoppedDuringInit) =>
          StartRunResume /\ stopRequested

\* C39: a stopRun made while a cancelled run is draining is accepted without
\* error and changes neither the store nor the engine; every accepted
\* startRun clears the pending-stop flag, which only a stopRun sets again;
\* and a Run is cancelled, or a start rejected as stopped during
\* initialization, only in a stopRun step or when startRun applies the flag a
\* stopRun set since that start.
C39_StopDoesNotCarryOver == [][StopNeverCarriesOver]_vars

\* a second stopRun was accepted while the cancelled Run of the first start
\* is draining; the pending-stop flag is set and another start is to come
C39_Witness ==
    /\ Draining /\ stopRequested /\ startsLeft = MaxRuns - 1
    /\ lastCall = Call("stopRun", "queued", Null)
    /\ Cardinality({i \in EventAt : events[i] = StopLogged}) = 1

\* ------------------------------------------------------------------ C40
AllFilesDone == \A q \in 1..Len(srtFiles) : fileState[srtFiles[q]].pc = "done"

\* C40: when the scan returns and every engine invocation returns or times
\* out, an accepted startRun leads to the settlement of the background run,
\* whatever stopRun and skipFile calls are made meanwhile: every file of
\* every batch is done, no Run is left "running", and isRunning() is false.
C40_RunSettles ==
    isRunning(State) ~> (~isRunning(State) /\ enginePc = "idle" /\ AllFilesDone
                           /\ RunningRuns = {})

\* a run over two files has settled: its Run was cancelled by a stop request
\* while the first file was with its engine, which then ran into its timeout
C40_Witness ==
    /\ Settled /\ Len(srtFiles) = 2 /\ AllFilesDone
    /\ Len(runs) = 1 /\ runs[1].status = "cancelled" /\ runs[1].end_time # Null
    /\ \E i, j \in EventAt :
          /\ i < j /\ events[i] = StopLogged
          /\ IsCompletion(j) /\ events[j].result.message = "Timeout"
====
